---- MODULE Spec2Model ----
(***************************************************************************)
(* A model of the ClawController mission store                             *)
(* (frontend/src/store/useMissionStore.js), its API client                 *)
(* (frontend/src/api.js) and the App effect that drives them               *)
(* (frontend/src/App.jsx).                                                 *)
(*                                                                         *)
(* The store is one state container; its handlers run to completion on a   *)
(* single event loop and suspend only at awaits.  Every action below is    *)
(* one such run-to-completion step: the synchronous part of a handler up   *)
(* to its await, the backend serving a request, or the continuation that   *)
(* runs when a response lands.                                             *)
(*                                                                         *)
(* The subsystems are explored by separate specifications that share the   *)
(* variables: SpecFeed (activity feed), SpecTasks (task board),            *)
(* SpecRouting and SpecChat (chat), SpecWs (WebSocket life cycle) and      *)
(* SpecInit (initialize).                                                  *)
(***************************************************************************)
EXTENDS Integers, Sequences, FiniteSets, TLC

VARIABLES
    \* ---- the store (useMissionStore.js:171-212)
    agents,           \* sequence of agents
    tasks,            \* sequence of tasks, frontend format
    recurringTasks,   \* sequence of recurring tasks
    liveFeed,         \* sequence of feed entries, newest first
    squadMessages,    \* sequence of chat messages, oldest first
    unreadChatCount,
    isLoading,
    isInitialized,
    error,
    loadingChat,
    wsConnected,
    ws,               \* the socket held by the store, 0 for null
    isChatOpen,
    notifications,    \* sequence of mention notifications
    selectedTaskId,   \* the task the modal shows, 0 for null
    \* ---- the environment
    backendTasks,     \* the backend's task collection, API format
    net,              \* requests in flight
    nextReq,          \* requests issued so far
    calls,            \* store actions called by the view so far
    now,              \* Date.now()
    events,           \* WebSocket events the backend has broadcast, not yet delivered
    nextMsgId,        \* chat message ids the backend has assigned so far
    sockets,          \* state of every WebSocket created so far
    timers,           \* pending reconnect timers
    mounted,          \* whether App is mounted
    mounts,           \* mounts so far
    \* ---- history
    feedCount,        \* addFeedItem calls so far
    feedLog,          \* every entry put into the feed since it was last replaced, newest first
    failedOptimistic, \* whether an optimistic action's request has failed
    refreshes,        \* every refreshTasks that replaced tasks: the response and the result
    soloStatus,       \* per moved task, the status its moveTask alone would leave it with
    last              \* the step that led to this state

vars == <<agents, tasks, recurringTasks, liveFeed, squadMessages, unreadChatCount,
          isLoading, isInitialized, error, loadingChat, wsConnected, ws, isChatOpen,
          notifications, selectedTaskId, backendTasks, net, nextReq, calls, now, events, nextMsgId, sockets, timers, mounted, mounts,
          feedCount, feedLog, failedOptimistic, refreshes, soloStatus, last>>

NULL == "null"

Min(a, b) == IF a < b THEN a ELSE b

\* Array.prototype.slice(0, n)
SliceFrom0(s, n) == SubSeq(s, 1, Min(n, Len(s)))

\* The state of the store after create() (useMissionStore.js:171-212), and
\* the same store once initialize() has loaded agents a and tasks t.
StoreInitAll(a, t, rec, loaded) ==
    /\ agents = a
    /\ tasks = t
    /\ recurringTasks = rec
    /\ liveFeed = <<>>
    /\ squadMessages = <<>>
    /\ unreadChatCount = 0
    /\ isLoading = ~loaded
    /\ isInitialized = loaded
    /\ error = NULL
    /\ loadingChat = FALSE
    /\ wsConnected = FALSE
    /\ ws = 0
    /\ isChatOpen = FALSE
    /\ notifications = <<>>
    /\ selectedTaskId = 0

StoreInitWith(a, t, loaded) == StoreInitAll(a, t, <<>>, loaded)

StoreInit == StoreInitWith(<<>>, <<>>, FALSE)

\* An environment in which nothing has happened yet; the backend holds tasks bt.
EnvInitWith(bt) ==
    /\ backendTasks = bt
    /\ net = {}
    /\ nextReq = 0
    /\ calls = 0
    /\ now = 0
    /\ events = <<>>
    /\ nextMsgId = 0
    /\ sockets = <<>>
    /\ timers = 0
    /\ mounted = FALSE
    /\ mounts = 0
    /\ feedCount = 0
    /\ feedLog = <<>>
    /\ failedOptimistic = FALSE
    /\ refreshes = <<>>
    /\ soloStatus = {}
    /\ last = [op |-> "init"]

EnvInit == EnvInitWith(<<>>)

(***************************************************************************)
(* Activity feed                                                           *)
(***************************************************************************)

\* The feed keeps the most recent 50 entries (useMissionStore.js:418).
FeedCap == 50

\* api.fetchActivity(limit = 50): the backend is asked for at most 50 entries.
ActivityLimit == 50

\* How many addFeedItem calls a run makes, and how often the feed is re-fetched.
MaxFeedInserts == 55
MaxFeedRefreshes == 1

\* The lengths of the activity lists the backend answers with.
FetchedLens == {0, 3, ActivityLimit - 1, ActivityLimit}

\* The item a WebSocket handler passes to addFeedItem (announcement).
FeedItems == {[type |-> "announcement", title |-> "Announcement"]}

\* The entry addFeedItem builds from an item: {id, timestamp: 'Just now', ...item}.
\* seq, the number of the insertion, stands for the entry's identity.
FeedEntry(item, seq) ==
    [type |-> item.type, title |-> item.title, timestamp |-> "Just now", seq |-> seq]

\* transformActivity of the k-th entry of the gen-th fetched list.
transformActivity(k, gen) ==
    [type |-> "task", title |-> "Activity", timestamp |-> "ago", seq |-> 0 - (100 * gen + k)]

\* A slip in the truncation: one entry too many is kept.
PrependCapped_KeepsOneMore(entry, feed) == SliceFrom0(<<entry>> \o feed, FeedCap + 1)

\* [entry, ...s.liveFeed].slice(0, 50)
PrependCapped(entry, feed) == SliceFrom0(<<entry>> \o feed, FeedCap)

feedFrame ==
    <<agents, tasks, recurringTasks, squadMessages, unreadChatCount, isLoading,
      isInitialized, error, loadingChat, wsConnected, ws, isChatOpen, backendTasks,
      net, calls, now, events, nextMsgId, sockets, timers, mounted, mounts,
      failedOptimistic, refreshes, soloStatus, notifications, selectedTaskId>>

AddFeedItem(item) ==
    /\ feedCount < MaxFeedInserts
    /\ feedCount' = feedCount + 1
    /\ liveFeed' = PrependCapped(FeedEntry(item, feedCount + 1), liveFeed)
    /\ feedLog' = <<FeedEntry(item, feedCount + 1)>> \o feedLog
    /\ last' = [op |-> "addFeedItem"]
    /\ UNCHANGED nextReq
    /\ UNCHANGED feedFrame

\* refreshActivity, from its fetch landing on: a list of len entries replaces
\* the feed, or the fetch has failed and the feed is kept.
RefreshActivity(ok, len) ==
    /\ nextReq < MaxFeedRefreshes
    /\ nextReq' = nextReq + 1
    /\ IF ok
       THEN /\ liveFeed' = [k \in 1..len |-> transformActivity(k, nextReq + 1)]
            /\ feedLog' = liveFeed'
       ELSE UNCHANGED <<liveFeed, feedLog>>
    /\ last' = [op |-> "refreshActivity", ok |-> ok]
    /\ UNCHANGED feedCount
    /\ UNCHANGED feedFrame

InitFeed == StoreInit /\ EnvInit

NextFeed ==
    \/ \E item \in FeedItems : AddFeedItem(item)
    \/ \E ok \in BOOLEAN, len \in FetchedLens : RefreshActivity(ok, len)

SpecFeed == InitFeed /\ [][NextFeed]_vars

\* C3: starting from a feed of at most 50 entries, after any sequence of
\* addFeedItem calls liveFeed holds exactly the min(50, previous + n) most
\* recently inserted entries, most recent first, and never more than 50.
C3_FeedKeepsNewest50 ==
    /\ Len(liveFeed) <= 50
    /\ Len(liveFeed) = Min(50, Len(feedLog))
    /\ \A i \in 1..Len(liveFeed) : liveFeed[i] = feedLog[i]

\* 55 entries inserted one at a time into the empty feed: the last 50 are left.
C3_Witness ==
    /\ Len(feedLog) = 55
    /\ \A i \in 1..55 : feedLog[i].seq = 56 - i
    /\ Len(liveFeed) = 50
    /\ liveFeed[1].seq = 55
    /\ liveFeed[50].seq = 6

(***************************************************************************)
(* Task board                                                              *)
(***************************************************************************)

statusOrder == <<"INBOX", "ASSIGNED", "IN PROGRESS", "REVIEW", "DONE">>

\* The ids of the tasks of a run, and the store actions the view calls in it.
MaxTasks == 2
MaxCalls == 2

TaskIds == 1..MaxTasks

\* The columns a card is dropped on (KanbanBoard.handleDragEnd: any status).
DropStatuses == {"ASSIGNED", "IN PROGRESS", "DONE"}

\* The collections the backend holds when the board has been loaded.
InitialBackendTasks ==
    {[i \in TaskIds |-> [id |-> i, status |-> IF i = 1 THEN s ELSE "REVIEW"]] :
        s \in {"INBOX", "IN_PROGRESS"}}

\* transformTask: the API's IN_PROGRESS is the board's 'IN PROGRESS'.
transformTask(apiTask) ==
    [id |-> apiTask.id,
     status |-> IF apiTask.status = "IN_PROGRESS" THEN "IN PROGRESS" ELSE apiTask.status]

\* tasksData.map(transformTask)
TransformTasks(apiTasks) == [i \in 1..Len(apiTasks) |-> transformTask(apiTasks[i])]

\* newStatus === 'IN PROGRESS' ? 'IN_PROGRESS' : newStatus
backendStatus(newStatus) == IF newStatus = "IN PROGRESS" THEN "IN_PROGRESS" ELSE newStatus

\* tasks.find(t => t.id === taskId), as the set of matching indices
FindTask(ts, taskId) == {i \in 1..Len(ts) : ts[i].id = taskId}

StatusOf(ts, taskId) == ts[CHOOSE i \in FindTask(ts, taskId) : TRUE].status

\* A slip in the update: the map returns every task as it was.
SetStatus_None(ts, taskId, newStatus) == ts

\* tasks.map(t => t.id === taskId ? {...t, status: newStatus} : t)
SetStatus(ts, taskId, newStatus) ==
    [i \in 1..Len(ts) |-> IF ts[i].id = taskId THEN [ts[i] EXCEPT !.status = newStatus] ELSE ts[i]]

\* tasks.filter(t => t.id !== taskId)
RECURSIVE RemoveTask(_, _)
RemoveTask(ts, taskId) ==
    IF ts = <<>> THEN <<>>
    ELSE IF Head(ts).id = taskId THEN RemoveTask(Tail(ts), taskId)
    ELSE <<Head(ts)>> \o RemoveTask(Tail(ts), taskId)

\* A request of the API client: sent, then served by the backend (ok with a
\* body, or failed), then landed, which runs the caller's continuation.
Request(kind, caller, taskId, status, pre) ==
    [rid |-> nextReq + 1, kind |-> kind, caller |-> caller, taskId |-> taskId,
     status |-> status, pre |-> pre, phase |-> "sent", body |-> <<>>,
     action |-> NULL, reviewer |-> NULL, feedback |-> FALSE, agentId |-> NULL,
     text |-> <<>>, active |-> FALSE]

\* refreshTasks up to its await: api.fetchTasks() is sent.
FetchTasksRequest == Request("fetchTasks", "refreshTasks", 0, NULL, NULL)

\* The refreshTasks of moveTask's catch block.  The request keeps, for the
\* record, the task that was moved and the status it had before the call.
RevertRequest(r) == [FetchTasksRequest EXCEPT !.taskId = r.taskId, !.pre = r.pre]

\* The record of what each moveTask would have left on its own: the requested
\* status, and the status before the call once its revert has fetched.
SoloSet(solo, taskId, status) ==
    {m \in solo : m.taskId # taskId} \cup {[taskId |-> taskId, status |-> status]}

taskFrame ==
    <<agents, recurringTasks, liveFeed, squadMessages, unreadChatCount, isLoading,
      isInitialized, error, loadingChat, wsConnected, ws, isChatOpen, now, events,
      nextMsgId, sockets, timers, mounted, mounts, feedCount, feedLog, notifications, selectedTaskId>>

\* moveTask up to its await: the early return, the optimistic update, the PATCH.
MoveTask(taskId, newStatus) ==
    /\ calls < MaxCalls
    /\ FindTask(tasks, taskId) # {}
    /\ StatusOf(tasks, taskId) # newStatus
    /\ tasks' = SetStatus(tasks, taskId, newStatus)
    /\ net' = net \cup {Request("updateTask", "moveTask", taskId, backendStatus(newStatus),
                                StatusOf(tasks, taskId))}
    /\ nextReq' = nextReq + 1
    /\ calls' = calls + 1
    /\ soloStatus' = SoloSet(soloStatus, taskId, newStatus)
    /\ last' = [op |-> "moveTask", taskId |-> taskId, from |-> StatusOf(tasks, taskId),
                status |-> newStatus]
    /\ UNCHANGED <<backendTasks, failedOptimistic, refreshes>>
    /\ UNCHANGED taskFrame

\* What moveTask does once api.updateTask has settled: nothing more on
\* success; on failure the catch block calls refreshTasks without awaiting it,
\* and moveTask resolves.
MoveTaskRevert(r) ==
    IF r.phase = "failed"
    THEN /\ net' = (net \ {r}) \cup {RevertRequest(r)}
         /\ nextReq' = nextReq + 1
         /\ failedOptimistic' = TRUE
    ELSE /\ net' = net \ {r}
         /\ UNCHANGED <<nextReq, failedOptimistic>>

MoveTaskSettle(r) ==
    /\ r.caller = "moveTask"
    /\ r.phase \in {"ok", "failed"}
    /\ MoveTaskRevert(r)
    /\ last' = [op |-> "moveTaskSettled", ok |-> (r.phase = "ok"), taskId |-> r.taskId,
                status |-> r.status, pre |-> r.pre]
    /\ UNCHANGED <<tasks, backendTasks, calls, refreshes, soloStatus>>
    /\ UNCHANGED taskFrame

\* s.selectedTaskId === taskId ? null : s.selectedTaskId
Deselect(selected, taskId) == IF selected = taskId THEN 0 ELSE selected

deleteFrame ==
    <<agents, recurringTasks, liveFeed, squadMessages, unreadChatCount, isLoading,
      isInitialized, error, loadingChat, wsConnected, ws, isChatOpen, now, events,
      nextMsgId, sockets, timers, mounted, mounts, feedCount, feedLog, notifications>>

\* deleteTask up to its await: the optimistic removal, which also closes the
\* modal of the task, and the DELETE.
DeleteTask(taskId) ==
    /\ calls < MaxCalls
    /\ tasks' = RemoveTask(tasks, taskId)
    /\ selectedTaskId' = Deselect(selectedTaskId, taskId)
    /\ net' = net \cup {Request("deleteTask", "deleteTask", taskId, NULL, NULL)}
    /\ nextReq' = nextReq + 1
    /\ calls' = calls + 1
    /\ last' = [op |-> "deleteTask", taskId |-> taskId]
    /\ UNCHANGED <<backendTasks, failedOptimistic, refreshes, soloStatus>>
    /\ UNCHANGED deleteFrame

\* deleteTask once api.deleteTask has settled: on failure refreshTasks is
\* called without awaiting it and the error is thrown to the caller.
DeleteTaskSettle(r) ==
    /\ r.caller = "deleteTask"
    /\ r.phase \in {"ok", "failed"}
    /\ IF r.phase = "failed"
       THEN /\ net' = (net \ {r}) \cup {FetchTasksRequest}
            /\ nextReq' = nextReq + 1
            /\ failedOptimistic' = TRUE
       ELSE /\ net' = net \ {r}
            /\ UNCHANGED <<nextReq, failedOptimistic>>
    /\ last' = [op |-> "deleteTaskSettled", ok |-> (r.phase = "ok"), taskId |-> r.taskId]
    /\ UNCHANGED <<tasks, backendTasks, calls, refreshes, soloStatus>>
    /\ UNCHANGED taskFrame

\* A slip in the replacement: the fetched tasks are added to the ones held.
ReplaceTasks_Appends(held, fetched) == held \o fetched

\* set({ tasks: tasksData.map(transformTask) }): the fetched tasks replace the
\* ones held.
ReplaceTasks(held, fetched) == fetched

\* refreshTasks called by a WebSocket task event or a fallback timer.
RefreshTasks ==
    /\ calls < MaxCalls
    /\ net' = net \cup {FetchTasksRequest}
    /\ nextReq' = nextReq + 1
    /\ calls' = calls + 1
    /\ last' = [op |-> "refreshTasks"]
    /\ UNCHANGED <<tasks, backendTasks, failedOptimistic, refreshes, soloStatus>>
    /\ UNCHANGED taskFrame

\* refreshTasks once api.fetchTasks has settled: the fetched collection
\* replaces tasks; a failure is logged and tasks is kept.
RefreshTasksLand(r) ==
    /\ r.caller = "refreshTasks"
    /\ r.phase \in {"ok", "failed"}
    /\ tasks' = IF r.phase = "ok" THEN ReplaceTasks(tasks, TransformTasks(r.body)) ELSE tasks
    /\ refreshes' = IF r.phase = "ok"
                    THEN Append(refreshes, [body |-> r.body, result |-> tasks'])
                    ELSE refreshes
    /\ soloStatus' = IF r.phase = "ok" /\ r.taskId # 0
                     THEN SoloSet(soloStatus, r.taskId, r.pre)
                     ELSE soloStatus
    /\ net' = net \ {r}
    /\ last' = [op |-> "refreshTasksLanded", ok |-> (r.phase = "ok")]
    /\ UNCHANGED <<backendTasks, nextReq, calls, failedOptimistic>>
    /\ UNCHANGED taskFrame

\* The backend serves a request: it rejects it (or the transport fails), or it
\* applies it to its collection and answers.  A PATCH or DELETE of a task the
\* backend does not hold is rejected.
BackendServe(r, accept) ==
    /\ r.phase = "sent"
    /\ r.kind \notin {"reviewTask", "updateRecurringTask", "fetchRecurringTasks"}
    /\ LET known == r.kind = "fetchTasks" \/ FindTask(backendTasks, r.taskId) # {}
           ok == accept /\ known
       IN /\ backendTasks' =
                IF ~ok THEN backendTasks
                ELSE IF r.kind = "updateTask" THEN SetStatus(backendTasks, r.taskId, r.status)
                ELSE IF r.kind = "deleteTask" THEN RemoveTask(backendTasks, r.taskId)
                ELSE backendTasks
          /\ net' = (net \ {r}) \cup
                {[r EXCEPT !.phase = IF ok THEN "ok" ELSE "failed",
                           !.body = IF ok /\ r.kind = "fetchTasks" THEN backendTasks ELSE <<>>]}
    /\ last' = [op |-> "backendServe"]
    /\ UNCHANGED <<tasks, nextReq, calls, failedOptimistic, refreshes, soloStatus>>
    /\ UNCHANGED taskFrame

\* The board after a successful initialize(): tasks is the transform of the
\* backend's collection.
InitTasks ==
    \E bt \in InitialBackendTasks :
        /\ StoreInitWith(<<>>, TransformTasks(bt), TRUE)
        /\ EnvInitWith(bt)

NextTasks ==
    \/ \E taskId \in TaskIds, newStatus \in DropStatuses : MoveTask(taskId, newStatus)
    \/ \E taskId \in TaskIds : DeleteTask(taskId)
    \/ RefreshTasks
    \/ \E r \in net, accept \in BOOLEAN : BackendServe(r, accept)
    \/ \E r \in net : MoveTaskSettle(r)
    \/ \E r \in net : DeleteTaskSettle(r)
    \/ \E r \in net : RefreshTasksLand(r)

SpecTasks == InitTasks /\ [][NextTasks]_vars

\* C1: moveTask(id, status) resolves to a state where the task has the
\* requested status when the backend accepted the update, and its pre-call
\* status when the backend rejected it.  (A settled request records the
\* requested status in the API's spelling, so both sides are compared in it.)
C1_MoveTaskRevertsOnResolve ==
    (last.op = "moveTaskSettled" /\ FindTask(tasks, last.taskId) # {}) =>
        backendStatus(StatusOf(tasks, last.taskId)) =
            (IF last.ok THEN last.status ELSE backendStatus(last.pre))

\* C2: once every request has settled after a failed optimistic action, the
\* store's collection equals the backend's.
C2_NoPermanentDivergence ==
    (failedOptimistic /\ net = {}) => tasks = TransformTasks(backendTasks)

(***************************************************************************)
(* Chat: texts are sequences of characters                                 *)
(***************************************************************************)

\* The characters of the model, by class.  \w is [A-Za-z0-9_].
LowerLetters ==
    {"a", "b", "c", "e", "g", "h", "i", "k", "l", "m", "n", "o", "p", "r", "s", "t", "u", "w"}
UpperLetters == {"A", "B", "T", "U"}
Digits == {"2"}
WordChars == LowerLetters \cup UpperLetters \cup Digits \cup {"_", "-"}

\* String.prototype.toLowerCase
toLowerCaseChar(c) ==
    IF c = "A" THEN "a" ELSE IF c = "B" THEN "b" ELSE IF c = "T" THEN "t"
    ELSE IF c = "U" THEN "u" ELSE c

toLowerCase(str) == [i \in 1..Len(str) |-> toLowerCaseChar(str[i])]

\* str.replace(/\s+/g, '')
RECURSIVE removeWhitespace(_)
removeWhitespace(str) ==
    IF str = <<>> THEN <<>>
    ELSE IF Head(str) = " " THEN removeWhitespace(Tail(str))
    ELSE <<Head(str)>> \o removeWhitespace(Tail(str))

\* String.prototype.includes
includes(str, pat) ==
    \E i \in 1..(Len(str) + 1) :
        /\ i + Len(pat) - 1 <= Len(str)
        /\ SubSeq(str, i, i + Len(pat) - 1) = pat

\* The end of the run of [\w-] characters that starts at position i.
RECURSIVE TokenEnd(_, _)
TokenEnd(text, i) ==
    IF i + 1 <= Len(text) /\ text[i + 1] \in WordChars THEN TokenEnd(text, i + 1) ELSE i

\* The loop over /@([\w-]+)/g.exec(text): the captured names, in order, from
\* position i on.
RECURSIVE mentionTokens(_, _)
mentionTokens(text, i) ==
    IF i > Len(text) THEN <<>>
    ELSE IF text[i] = "@" /\ i + 1 <= Len(text) /\ text[i + 1] \in WordChars
    THEN <<SubSeq(text, i + 1, TokenEnd(text, i + 1))>> \o
         mentionTokens(text, TokenEnd(text, i + 1) + 1)
    ELSE mentionTokens(text, i + 1)

\* The test of agents.find in addChatMessage, on the lower-cased name.
chatMentionMatches(a, mentionName) ==
    \/ toLowerCase(a.name) = mentionName
    \/ toLowerCase(a.id) = mentionName
    \/ removeWhitespace(toLowerCase(a.name)) = mentionName

\* agents.find(...): the index of the first agent that matches, 0 for none.
chatFindAgent(as, mentionName) ==
    IF \E i \in 1..Len(as) : chatMentionMatches(as[i], mentionName)
    THEN CHOOSE i \in 1..Len(as) :
            /\ chatMentionMatches(as[i], mentionName)
            /\ \A j \in 1..(i - 1) : ~chatMentionMatches(as[j], mentionName)
    ELSE 0

\* The mentions array of addChatMessage: one agent per token that resolves.
RECURSIVE chatMentions(_, _)
chatMentions(tokens, as) ==
    IF tokens = <<>> THEN <<>>
    ELSE LET k == chatFindAgent(as, toLowerCase(Head(tokens)))
         IN (IF k = 0 THEN <<>> ELSE <<as[k]>>) \o chatMentions(Tail(tokens), as)

MainId == <<"m", "a", "i", "n">>

\* A slip in the count: the first resolved mention wins whenever there is one.
targetOfMentions_FirstWins(mentions) == IF Len(mentions) >= 1 THEN mentions[1].id ELSE MainId

\* mentions.length === 1 ? mentions[0].id : 'main'
targetOfMentions(mentions) == IF Len(mentions) = 1 THEN mentions[1].id ELSE MainId

targetAgentId(text, as) == targetOfMentions(chatMentions(mentionTokens(text, 1), as))

UserId == <<"u", "s", "e", "r">>

\* mentionsUser: the literal handles an unread chat message is scanned for.
mentionsUser(text) ==
    /\ text # <<>>
    /\ \/ includes(toLowerCase(text), <<"@", "u", "s", "e", "r">>)
       \/ includes(toLowerCase(text), <<"@", "m", "i", "k", "e">>)
       \/ includes(toLowerCase(text), <<"@", "h", "u", "m", "a", "n">>)
       \/ includes(toLowerCase(text), <<"@", "b", "o", "s", "s">>)

\* transformChatMessage.  src is history: the send a message stems from and
\* whether it is that send's user message or its reply.
transformChatMessage(apiMessage) ==
    [id |-> apiMessage.id, agentId |-> apiMessage.agent_id, text |-> apiMessage.content,
     isTyping |-> FALSE, src |-> apiMessage.src]

\* s.squadMessages.some(m => m.id === transformed.id)
chatMessageExists_Never(msgs, id) == FALSE

chatMessageExists(msgs, id) == \E i \in 1..Len(msgs) : msgs[i].id = id

\* A slip in the filter: nothing is removed.
removeMessage_KeepsAll(msgs, id) == msgs

\* s.squadMessages.filter(m => m.id !== typingIndicatorId)
RECURSIVE removeMessage(_, _)
removeMessage(msgs, id) ==
    IF msgs = <<>> THEN <<>>
    ELSE IF Head(msgs).id = id THEN removeMessage(Tail(msgs), id)
    ELSE <<Head(msgs)>> \o removeMessage(Tail(msgs), id)

\* How many messages a run sends, and how long a typed text is.
MaxSends == 1
MaxTextLen == 4

\* The characters a text is typed from.
TextChars == {"@", "a", "b", "A", " "}

TypedTexts == UNION {[1..k -> TextChars] : k \in 1..MaxTextLen}

\* The text sent where the conversation, not the routing, is explored.
ChatTexts == {<<"@", "a", " ", "h", "i">>}

\* The replies an agent gives.
ReplyTexts == {<<"o", "k">>, <<"@", "U", "s", "e", "r", " ", "o", "k">>}

Alice == [id |-> <<"a">>, name |-> <<"A">>, status |-> "IDLE"]
Bob == [id |-> <<"b">>, name |-> <<"B", " ", "b">>, status |-> "IDLE"]
Jarvis == [id |-> MainId, name |-> <<"a", "b">>, status |-> "WORKING"]
Ab == [id |-> <<"a">>, name |-> <<"b">>, status |-> "IDLE"]
Ba == [id |-> <<"b">>, name |-> <<"a">>, status |-> "IDLE"]

\* The rosters a run starts with.
Rosters == {<<>>, <<Alice, Bob>>, <<Alice, Bob, Jarvis>>, <<Ab, Ba>>}

chatFrame ==
    <<agents, tasks, recurringTasks, liveFeed, isLoading, isInitialized, error,
      wsConnected, ws, backendTasks, sockets, timers, mounted, mounts, feedCount,
      feedLog, failedOptimistic, refreshes, soloStatus, notifications, selectedTaskId>>

\* addChatMessage up to its await.  ChatWidget.handleSend calls it only while
\* no send is loading; dt is the time since the store's last step.
AddChatMessage(text, dt) ==
    /\ calls < MaxSends
    /\ ~loadingChat
    /\ now' = now + dt
    /\ LET target == targetAgentId(text, agents)
           userMessage == [id |-> <<"user", now'>>, agentId |-> UserId, text |-> text,
                           isTyping |-> FALSE, src |-> <<nextReq + 1, "user">>]
           typingMessage == [id |-> <<"typing", now'>>, agentId |-> target,
                             text |-> <<".", ".", ".">>, isTyping |-> TRUE,
                             src |-> <<nextReq + 1, "typing">>]
       IN /\ squadMessages' = squadMessages \o <<userMessage, typingMessage>>
          /\ net' = net \cup {[rid |-> nextReq + 1, kind |-> "send",
                               caller |-> "addChatMessage", target |-> target,
                               text |-> text, typingId |-> <<"typing", now'>>,
                               phase |-> "sent", reply |-> <<>>, replyId |-> <<>>]}
          /\ last' = [op |-> "addChatMessage", text |-> text, target |-> target]
    /\ loadingChat' = TRUE
    /\ nextReq' = nextReq + 1
    /\ calls' = calls + 1
    /\ UNCHANGED <<unreadChatCount, isChatOpen, events, nextMsgId>>
    /\ UNCHANGED chatFrame

\* The ways the backend answers an accepted send: no reply; the reply in the
\* response, without or with its id; the reply over the WebSocket only.
ReplyModes == {"none", "sync", "syncId", "ws"}

\* The backend serves POST /api/chat/send-to-agent.  It never sees the ids the
\* store gave its local messages (api.js:162-168 sends agent_id and message):
\* the messages it stores get ids of its own.  It may broadcast the user's
\* message (echoUser) and broadcasts the agent's reply as chat_message events.
ServeSend(r, ok, echoUser, mode, replyText) ==
    /\ r.kind = "send"
    /\ r.phase = "sent"
    /\ IF ok
       THEN LET userEvent == [id |-> <<"srv", nextMsgId + 1>>, agent_id |-> UserId,
                              content |-> r.text, src |-> <<r.rid, "user">>]
                replyEvent == [id |-> <<"srv", nextMsgId + 2>>, agent_id |-> r.target,
                               content |-> replyText, src |-> <<r.rid, "reply">>]
            IN /\ events' = events \o (IF echoUser THEN <<userEvent>> ELSE <<>>)
                                   \o (IF mode = "none" THEN <<>> ELSE <<replyEvent>>)
               /\ nextMsgId' = nextMsgId + 2
               /\ net' = (net \ {r}) \cup
                    {[r EXCEPT !.phase = "ok",
                               !.reply = IF mode \in {"sync", "syncId"} THEN replyText ELSE <<>>,
                               !.replyId = IF mode = "syncId" THEN <<"srv", nextMsgId + 2>>
                                           ELSE <<>>]}
       ELSE /\ net' = (net \ {r}) \cup {[r EXCEPT !.phase = "failed"]}
            /\ UNCHANGED <<events, nextMsgId>>
    /\ last' = [op |-> "serveSend"]
    /\ UNCHANGED <<squadMessages, unreadChatCount, loadingChat, isChatOpen, now, nextReq, calls>>
    /\ UNCHANGED chatFrame

\* addChatMessage once api.sendChatMessageToAgent has settled: the typing
\* indicator is removed; a reply in the response is appended; a failure is
\* thrown to the caller.
SendSettle(r) ==
    /\ r.kind = "send"
    /\ r.phase \in {"ok", "failed"}
    /\ LET kept == removeMessage(squadMessages, r.typingId)
           replyMessage == [id |-> IF r.replyId # <<>> THEN r.replyId ELSE <<"reply", now>>,
                            agentId |-> r.target, text |-> r.reply, isTyping |-> FALSE,
                            src |-> <<r.rid, "reply">>]
       IN squadMessages' = IF r.phase = "ok" /\ r.reply # <<>>
                           THEN kept \o <<replyMessage>> ELSE kept
    /\ loadingChat' = FALSE
    /\ net' = net \ {r}
    /\ last' = [op |-> "sendSettled", ok |-> (r.phase = "ok"), typingId |-> r.typingId,
                thrown |-> (r.phase = "failed")]
    /\ UNCHANGED <<unreadChatCount, isChatOpen, events, nextMsgId, now, nextReq, calls>>
    /\ UNCHANGED chatFrame

\* The onMessage handler for a chat_message event, the oldest undelivered one.
WsChatMessage ==
    /\ events # <<>>
    /\ LET msg == Head(events)
           isFromAgent == msg.agent_id # <<>> /\ msg.agent_id # UserId
           msgMentionsUser == mentionsUser(msg.content)
           chatOpen == isChatOpen
           transformed == transformChatMessage(msg)
           exists == chatMessageExists(squadMessages, transformed.id)
       IN /\ IF exists
             THEN UNCHANGED <<squadMessages, unreadChatCount>>
             ELSE /\ squadMessages' = squadMessages \o <<transformed>>
                  /\ unreadChatCount' =
                        IF isFromAgent /\ msgMentionsUser /\ ~chatOpen
                        THEN unreadChatCount + 1 ELSE unreadChatCount
          /\ last' = [op |-> "chat_message", id |-> msg.id, existed |-> exists]
    /\ events' = Tail(events)
    /\ UNCHANGED <<loadingChat, isChatOpen, net, nextMsgId, now, nextReq, calls>>
    /\ UNCHANGED chatFrame

\* A slip in toggleChat: the count is kept when the chat opens.
unreadOnToggle_Keeps(open, count) == count

\* unreadChatCount: !state.isChatOpen ? 0 : state.unreadChatCount
unreadOnToggle(open, count) == IF ~open THEN 0 ELSE count

toggleChat ==
    /\ isChatOpen' = ~isChatOpen
    /\ unreadChatCount' = unreadOnToggle(isChatOpen, unreadChatCount)
    /\ last' = [op |-> "toggleChat"]
    /\ UNCHANGED <<squadMessages, loadingChat, net, events, nextMsgId, now, nextReq, calls>>
    /\ UNCHANGED chatFrame

markChatAsRead ==
    /\ unreadChatCount' = 0
    /\ last' = [op |-> "markChatAsRead"]
    /\ UNCHANGED <<squadMessages, isChatOpen, loadingChat, net, events, nextMsgId, now,
                   nextReq, calls>>
    /\ UNCHANGED chatFrame

\* The chat of a loaded dashboard with an empty history.
InitChat ==
    /\ StoreInitWith(<<Alice, Bob, Jarvis>>, <<>>, TRUE)
    /\ EnvInit

NextChat ==
    \/ \E text \in ChatTexts, dt \in 0..1 : AddChatMessage(text, dt)
    \/ \E r \in net, ok \in BOOLEAN, echoUser \in BOOLEAN, mode \in ReplyModes,
          replyText \in ReplyTexts : ServeSend(r, ok, echoUser, mode, replyText)
    \/ \E r \in net : SendSettle(r)
    \/ WsChatMessage
    \/ toggleChat
    \/ markChatAsRead

SpecChat == InitChat /\ [][NextChat]_vars

\* One send per run, of any typed text against any roster; the backend
\* accepts or rejects it without a reply.
InitRouting ==
    \E roster \in Rosters :
        /\ StoreInitWith(roster, <<>>, TRUE)
        /\ EnvInit

NextRouting ==
    \/ \E text \in TypedTexts : calls < 1 /\ AddChatMessage(text, 1)
    \/ \E r \in net, ok \in BOOLEAN : ServeSend(r, ok, FALSE, "none", <<>>)
    \/ \E r \in net : SendSettle(r)

SpecRouting == InitRouting /\ [][NextRouting]_vars

\* The positions of text where an @token starts: an "@" with a [\w-]
\* character after it.
MentionStarts(text) ==
    {p \in 1..Len(text) : text[p] = "@" /\ p + 1 <= Len(text) /\ text[p + 1] \in WordChars}

\* The token that starts at p: the longest run of [\w-] characters after the "@".
TokenAt(text, p) ==
    LET q == CHOOSE q \in (p + 1)..Len(text) :
                /\ \A k \in (p + 1)..q : text[k] \in WordChars
                /\ q + 1 <= Len(text) => text[q + 1] \notin WordChars
    IN SubSeq(text, p + 1, q)

\* The agents of roster as (by index) that the token at p resolves to.
ResolvedAt(text, p, as) ==
    {k \in 1..Len(as) : chatMentionMatches(as[k], toLowerCase(TokenAt(text, p)))}

FirstOf(S) == CHOOSE k \in S : \A j \in S : k <= j

\* The @tokens at the head of text: "@token", then more of them, each after
\* blanks.
RECURSIVE SkipBlanks(_, _)
SkipBlanks(text, i) ==
    IF i <= Len(text) /\ text[i] = " " THEN SkipBlanks(text, i + 1) ELSE i

RECURSIVE LeadingStarts(_, _)
LeadingStarts(text, p) ==
    IF p \in MentionStarts(text)
    THEN {p} \cup (LET q == p + Len(TokenAt(text, p)) + 1
                   IN IF q <= Len(text) /\ text[q] = " "
                      THEN LeadingStarts(text, SkipBlanks(text, q))
                      ELSE {})
    ELSE {}

\* C4 as stated: the target is picked from the leading @name tokens; when
\* exactly one agent of the roster is matched by them the message is sent to
\* that agent, and when none or more than one agents are matched it is sent
\* to "main".
C4_LeadingMentionRouting ==
    \A r \in net : r.kind = "send" =>
        LET matched == UNION {IF ResolvedAt(r.text, p, agents) = {} THEN {}
                              ELSE {FirstOf(ResolvedAt(r.text, p, agents))} :
                              p \in LeadingStarts(r.text, 1)}
        IN r.target = IF Cardinality(matched) = 1
                      THEN agents[FirstOf(matched)].id ELSE MainId

\* C4 (amended): the target is picked from every @token of the text, leading
\* or not; when exactly one token resolves to an agent of the roster, the
\* message is sent to the first agent of the roster that token matches; when
\* no token or more than one token resolves (be it to the same agent), it is
\* sent to "main".
C4_MentionRouting ==
    \A r \in net : r.kind = "send" =>
        LET resolving == {p \in MentionStarts(r.text) : ResolvedAt(r.text, p, agents) # {}}
        IN r.target =
            IF Cardinality(resolving) = 1
            THEN agents[FirstOf(ResolvedAt(r.text, FirstOf(resolving), agents))].id
            ELSE MainId

\* A message whose single resolving token follows plain text is in flight to
\* the agent the token names, not to "main".
C4_Witness ==
    \E r \in net :
        /\ r.kind = "send"
        /\ r.text = <<"a", " ", "@", "b">>
        /\ agents = <<Alice, Bob>>
        /\ r.target = Bob.id

\* C5: a chat_message event whose id is the id of a message already in
\* squadMessages leaves squadMessages and unreadChatCount unchanged.
C5_DuplicateChatEventIgnored ==
    [][(last'.op = "chat_message"
            /\ \E i \in 1..Len(squadMessages) : squadMessages[i].id = last'.id)
          => UNCHANGED <<squadMessages, unreadChatCount>>]_vars

\* The event for a reply that the send's response had already put into
\* squadMessages under the same id has been handled, with the chat closed and
\* the reply mentioning the user.
C5_Witness ==
    /\ last.op = "chat_message"
    /\ last.existed
    /\ ~isChatOpen
    /\ \E i \in 1..Len(squadMessages) :
        /\ squadMessages[i].id = last.id
        /\ mentionsUser(squadMessages[i].text)
        /\ squadMessages[i].agentId # UserId

\* C6: a message sent with addChatMessage is not doubled by the server's
\* chat_message echo of it: the user's message of a send is in squadMessages
\* at most once.
C6_EchoNotDoubled ==
    \A i, j \in 1..Len(squadMessages) :
        (squadMessages[i].src = squadMessages[j].src /\ squadMessages[i].src[2] = "user")
            => i = j

(***************************************************************************)
(* WebSocket life cycle                                                    *)
(***************************************************************************)

\* The sockets a run creates and the times App is mounted in it.
MaxSockets == 4
MaxMounts == 2

LiveSockets == {k \in 1..Len(sockets) : sockets[k] \in {"connecting", "open"}}

wsFrame ==
    <<agents, tasks, recurringTasks, liveFeed, squadMessages, unreadChatCount,
      isLoading, isInitialized, error, loadingChat, isChatOpen, backendTasks, net,
      nextReq, calls, now, events, nextMsgId, feedCount, feedLog, failedOptimistic,
      refreshes, soloStatus, notifications, selectedTaskId>>

\* connectWebSocket: api.createWebSocket opens a new socket, set({ ws }).
connectWebSocket ==
    /\ sockets' = Append(sockets, "connecting")
    /\ ws' = Len(sockets) + 1

\* ws.close() on the socket k: a connecting or open socket starts closing and
\* its close event follows later.
CloseCall(k) ==
    [sockets EXCEPT ![k] = IF sockets[k] \in {"connecting", "open"} THEN "closing" ELSE sockets[k]]

\* if (!state.wsConnected) of the reconnect timer
ShouldReconnect_Always(connected) == TRUE

ShouldReconnect_Never(connected) == FALSE

ShouldReconnect(connected) == ~connected

\* The App effect on mount, as far as the socket goes: connectWebSocket().
AppMount ==
    /\ ~mounted
    /\ mounts < MaxMounts
    /\ Len(sockets) < MaxSockets
    /\ mounted' = TRUE
    /\ mounts' = mounts + 1
    /\ connectWebSocket
    /\ last' = [op |-> "mount"]
    /\ UNCHANGED <<wsConnected, timers>>
    /\ UNCHANGED wsFrame

\* The App effect's cleanup: disconnectWebSocket().
AppUnmount ==
    /\ mounted
    /\ mounted' = FALSE
    /\ IF ws # 0
       THEN /\ sockets' = CloseCall(ws)
            /\ ws' = 0
            /\ wsConnected' = FALSE
       ELSE UNCHANGED <<sockets, ws, wsConnected>>
    /\ last' = [op |-> "unmount"]
    /\ UNCHANGED <<timers, mounts>>
    /\ UNCHANGED wsFrame

\* The open event of socket k: onOpen.
SocketOpen(k) ==
    /\ sockets[k] = "connecting"
    /\ sockets' = [sockets EXCEPT ![k] = "open"]
    /\ wsConnected' = TRUE
    /\ last' = [op |-> "open", socket |-> k]
    /\ UNCHANGED <<ws, timers, mounted, mounts>>
    /\ UNCHANGED wsFrame

\* The close event of socket k (the connection failed or was lost, or close()
\* was called): onClose sets wsConnected false and starts the 3 s timer.
SocketClose(k) ==
    /\ sockets[k] \in {"connecting", "open", "closing"}
    /\ sockets' = [sockets EXCEPT ![k] = "closed"]
    /\ wsConnected' = FALSE
    /\ timers' = timers + 1
    /\ last' = [op |-> "close", socket |-> k]
    /\ UNCHANGED <<ws, mounted, mounts>>
    /\ UNCHANGED wsFrame

\* A reconnect timer fires.
ReconnectTimer ==
    /\ timers > 0
    /\ timers' = timers - 1
    /\ IF ShouldReconnect(wsConnected)
       THEN /\ Len(sockets) < MaxSockets
            /\ connectWebSocket
       ELSE UNCHANGED <<sockets, ws>>
    /\ last' = [op |-> "reconnectTimer", connected |-> wsConnected]
    /\ UNCHANGED <<wsConnected, mounted, mounts>>
    /\ UNCHANGED wsFrame

InitWs == StoreInit /\ EnvInit

NextWs ==
    \/ AppMount
    \/ AppUnmount
    \/ \E k \in 1..Len(sockets) : SocketOpen(k)
    \/ \E k \in 1..Len(sockets) : SocketClose(k)
    \/ ReconnectTimer

SpecWs == InitWs /\ [][NextWs]_vars

C8_OneConnection == Cardinality(LiveSockets) <= 1

(***************************************************************************)
(* initialize                                                              *)
(***************************************************************************)

\* The initialize calls and the 30 s agent refreshes of a run.
MaxInits == 2
MaxAgentRefreshes == 1

\* What the backend holds while the dashboard loads.
ApiAgents == <<Alice, Jarvis>>
ApiTasks == <<[id |-> 1, status |-> "IN_PROGRESS"], [id |-> 2, status |-> "DONE"]>>
ApiChat == <<[id |-> <<"srv", 1>>, agent_id |-> MainId, content |-> <<"o", "k">>,
              src |-> <<0, "reply">>]>>
ApiActivityLen == 3
ApiRecurring == <<[id |-> 1, is_active |-> TRUE]>>

\* transformAgent, on the fields of an agent that are modelled.
transformAgent(apiAgent) ==
    [id |-> apiAgent.id, name |-> apiAgent.name, status |-> apiAgent.status]

TransformAgents(apiAgents) == [i \in 1..Len(apiAgents) |-> transformAgent(apiAgents[i])]

TransformChat(apiMessages) ==
    [i \in 1..Len(apiMessages) |-> transformChatMessage(apiMessages[i])]

\* The five fetches of initialize, in the order of its Promise.all.
InitFetches == {"agents", "tasks", "chat", "activity", "recurring"}

\* The ways a fetch ends.  api.fetchAgents asks /api/openclaw/status and then
\* /api/openclaw/agents: either request can fail, or OpenClaw is unavailable.
FetchOutcomes(which) ==
    IF which = "agents" THEN {"ok", "statusFailed", "unavailable", "agentsFailed"}
    ELSE {"ok", "failed"}

\* api.fetchAgents (fetchAgentsWithOpenClaw): it answers the agents when both
\* requests succeed and the empty list in every other case; it never rejects.
fetchAgents(outcome) == IF outcome = "ok" THEN ApiAgents ELSE <<>>

\* Whether an element of initialize's Promise.all rejects: the recurring
\* fetch has a catch of its own, and fetchAgents never rejects.
Rejects_RecurringToo(which, outcome) ==
    which \in {"tasks", "chat", "activity", "recurring"} /\ outcome = "failed"

Rejects_TasksSwallowed(which, outcome) ==
    which \in {"chat", "activity"} /\ outcome = "failed"

Rejects(which, outcome) == which \in {"tasks", "chat", "activity"} /\ outcome = "failed"

\* The fetches of a call that have failed on the network so far.
FailedFetches(res) == {w \in InitFetches : res[w] \notin {"pending", "ok"}}

initFrame ==
    <<unreadChatCount, loadingChat, wsConnected, ws, isChatOpen, backendTasks, now,
      events, nextMsgId, sockets, timers, mounts, feedCount, feedLog,
      failedOptimistic, refreshes, soloStatus, notifications, selectedTaskId>>

\* initialize up to its await: set({ isLoading: true, error: null }) and the
\* five fetches.  App calls it on mount; ErrorScreen's retry calls it again.
initialize ==
    /\ calls < MaxInits
    /\ \/ ~mounted
       \/ mounted /\ error # NULL /\ ~isInitialized /\ ~isLoading
    /\ mounted' = TRUE
    /\ isLoading' = TRUE
    /\ error' = NULL
    /\ net' = net \cup {[rid |-> nextReq + 1, kind |-> "initialize",
                         res |-> [w \in InitFetches |-> "pending"]]}
    /\ nextReq' = nextReq + 1
    /\ calls' = calls + 1
    /\ last' = [op |-> "initialize"]
    /\ UNCHANGED <<agents, tasks, recurringTasks, squadMessages, liveFeed, isInitialized>>
    /\ UNCHANGED initFrame

\* The set() of initialize's try block, from the fetched data.
InitializeLoaded(res) ==
    /\ agents' = TransformAgents(fetchAgents(res["agents"]))
    /\ tasks' = TransformTasks(ApiTasks)
    /\ recurringTasks' = IF res["recurring"] = "ok" THEN ApiRecurring ELSE <<>>
    /\ squadMessages' = TransformChat(ApiChat)
    /\ liveFeed' = [k \in 1..ApiActivityLen |-> transformActivity(k, 0)]
    /\ isLoading' = FALSE
    /\ isInitialized' = TRUE
    /\ UNCHANGED error

\* The set() of initialize's catch block.
InitializeFailed ==
    /\ isLoading' = FALSE
    /\ error' = "Request failed"
    /\ UNCHANGED <<agents, tasks, recurringTasks, squadMessages, liveFeed, isInitialized>>

\* One fetch of the call c of initialize settles.  A rejection rejects the
\* Promise.all at once and the catch block runs; the last fetch to settle
\* without a rejection resolves it and the try block goes on.
InitFetchSettle(c, which, outcome) ==
    /\ c.kind = "initialize"
    /\ c.res[which] = "pending"
    /\ LET res == [c.res EXCEPT ![which] = outcome]
       IN IF Rejects(which, outcome)
          THEN /\ InitializeFailed
               /\ net' = net \ {c}
               /\ last' = [op |-> "initializeSettled", ok |-> FALSE,
                           failed |-> FailedFetches(res)]
          ELSE IF \A w \in InitFetches : res[w] # "pending"
          THEN /\ InitializeLoaded(res)
               /\ net' = net \ {c}
               /\ last' = [op |-> "initializeSettled", ok |-> TRUE,
                           failed |-> FailedFetches(res)]
          ELSE /\ net' = (net \ {c}) \cup {[c EXCEPT !.res = res]}
               /\ last' = [op |-> "fetchSettled"]
               /\ UNCHANGED <<agents, tasks, recurringTasks, squadMessages, liveFeed,
                              isLoading, isInitialized, error>>
    /\ UNCHANGED <<nextReq, calls, mounted>>
    /\ UNCHANGED initFrame

\* refreshAgents, called by App's 30 s interval, up to its await.  (Of the
\* requests issued, those that are not initialize calls are agent refreshes.)
RefreshAgents ==
    /\ mounted
    /\ nextReq - calls < MaxAgentRefreshes
    /\ net' = net \cup {[rid |-> nextReq + 1, kind |-> "refreshAgents",
                         res |-> [w \in InitFetches |-> "pending"]]}
    /\ nextReq' = nextReq + 1
    /\ last' = [op |-> "refreshAgents"]
    /\ UNCHANGED <<agents, tasks, recurringTasks, squadMessages, liveFeed, isLoading,
                   isInitialized, error, calls, mounted>>
    /\ UNCHANGED initFrame

\* refreshAgents once api.fetchAgentsWithOpenClaw has settled.
RefreshAgentsLand(c, outcome) ==
    /\ c.kind = "refreshAgents"
    /\ agents' = TransformAgents(fetchAgents(outcome))
    /\ net' = net \ {c}
    /\ last' = [op |-> "refreshAgentsLanded", outcome |-> outcome]
    /\ UNCHANGED <<tasks, recurringTasks, squadMessages, liveFeed, isLoading,
                   isInitialized, error, nextReq, calls, mounted>>
    /\ UNCHANGED initFrame

InitInit == StoreInit /\ EnvInit

NextInit ==
    \/ initialize
    \/ \E c \in net, which \in InitFetches :
          \E outcome \in FetchOutcomes(which) : InitFetchSettle(c, which, outcome)
    \/ RefreshAgents
    \/ \E c \in net, outcome \in FetchOutcomes("agents") : RefreshAgentsLand(c, outcome)

SpecInit == InitInit /\ [][NextInit]_vars

C10_RecurringFailureNonFatal ==
    (last.op = "initializeSettled" /\ last.failed = {"recurring"}) =>
        /\ isInitialized
        /\ isLoading = FALSE
        /\ error = NULL
        /\ recurringTasks = <<>>
        /\ agents = TransformAgents(ApiAgents)
        /\ tasks = TransformTasks(ApiTasks)
        /\ squadMessages = TransformChat(ApiChat)
        /\ Len(liveFeed) = ApiActivityLen

\* initialize() has completed with only the recurring-tasks fetch failed.
C10_Witness ==
    /\ last.op = "initializeSettled"
    /\ last.failed = {"recurring"}
    /\ agents # <<>>
    /\ tasks # <<>>

\* C11 (the refreshAgents case): when the fetch behind refreshAgents fails, the
\* agents of the store are left unchanged: stale data is kept, not cleared.
C11_RefreshFailureKeepsStale ==
    [][(last'.op = "refreshAgentsLanded" /\ last'.outcome # "ok")
          => UNCHANGED agents]_vars

\* C12: the typing placeholder of addChatMessage is transient.  Once the call
\* has settled, with the send accepted (with or without a reply in the
\* response) or failed, its placeholder is not in squadMessages, and with no
\* send in flight no message is a typing placeholder; the call throws exactly
\* when the send failed.
C12_TypingPlaceholderTransient ==
    /\ last.op = "sendSettled" =>
        /\ \A i \in 1..Len(squadMessages) : squadMessages[i].id # last.typingId
        /\ last.thrown = ~last.ok
        /\ ~loadingChat
    /\ (\A r \in net : r.kind # "send") =>
        \A i \in 1..Len(squadMessages) : ~squadMessages[i].isTyping

\* A send has failed: the call has thrown and only the user's message is left.
C12_Witness ==
    /\ last.op = "sendSettled"
    /\ last.thrown
    /\ Len(squadMessages) = 1
    /\ squadMessages[1].agentId = UserId
    /\ ~squadMessages[1].isTyping

(***************************************************************************)
(* refreshTasks, repeated                                                  *)
(***************************************************************************)

\* The board is re-fetched again and again while task 1 is dragged from
\* column to column, so that the backend's collection changes between some
\* of the fetches and stays as it is between others.
NextRefresh ==
    \/ RefreshTasks
    \/ \E newStatus \in DropStatuses : MoveTask(1, newStatus)
    \/ \E r \in net, accept \in BOOLEAN : BackendServe(r, accept)
    \/ \E r \in net : MoveTaskSettle(r)
    \/ \E r \in net : RefreshTasksLand(r)

SpecRefresh == InitTasks /\ [][NextRefresh]_vars

\* C13: two refreshTasks() calls that are answered with the same collection
\* produce the same tasks array, whatever the store held before each of them:
\* the result is a function of the API response alone.
C13_RefreshTasksIdempotent ==
    \A i, j \in 1..Len(refreshes) :
        refreshes[i].body = refreshes[j].body => refreshes[i].result = refreshes[j].result

\* refreshTasks() has run twice in a row against an unchanged, non-empty
\* backend collection, and tasks is what the first of the two calls produced.
C13_Witness ==
    /\ last.op = "refreshTasksLanded"
    /\ Len(refreshes) = 2
    /\ refreshes[1].body = refreshes[2].body
    /\ refreshes[1].body # <<>>
    /\ tasks = refreshes[1].result

(***************************************************************************)
(* agent_status events                                                     *)
(***************************************************************************)

\* The statuses the backend reports for an agent, and the ids its events name
\* (the last one is the id of no agent of any roster).
AgentStatuses == {"WORKING", "IDLE", "OFFLINE"}
EventAgentIds == {<<"a">>, <<"b">>, MainId, <<"n", "o">>}

\* A slip in the map: the status is given to every agent.
patchAgentStatus_All(as, id, status) ==
    [i \in 1..Len(as) |-> [as[i] EXCEPT !.status = status]]

\* s.agents.map(a => a.id === data.data.id ? { ...a, status: data.data.status } : a)
patchAgentStatus(as, id, status) ==
    [i \in 1..Len(as) |-> IF as[i].id = id THEN [as[i] EXCEPT !.status = status] ELSE as[i]]

agentsFrame ==
    <<tasks, recurringTasks, liveFeed, squadMessages, unreadChatCount, isLoading,
      isInitialized, error, loadingChat, wsConnected, ws, isChatOpen, backendTasks,
      net, nextReq, calls, now, events, nextMsgId, sockets, timers, mounted, mounts,
      feedCount, feedLog, failedOptimistic, refreshes, soloStatus, notifications, selectedTaskId>>

\* The onMessage handler for an agent_status event.
WsAgentStatus(id, status) ==
    /\ agents' = patchAgentStatus(agents, id, status)
    /\ last' = [op |-> "agent_status", id |-> id, status |-> status]
    /\ UNCHANGED agentsFrame

\* A loaded dashboard with any of the rosters.
InitAgents ==
    \E roster \in Rosters :
        /\ StoreInitWith(roster, <<>>, TRUE)
        /\ EnvInit

NextAgents == \E id \in EventAgentIds, status \in AgentStatuses : WsAgentStatus(id, status)

SpecAgents == InitAgents /\ [][NextAgents]_vars

\* C14: an agent_status event patches only the status of the agent whose id
\* matches: the number and order of the agents, every other field of that
\* agent, every other agent and every other part of the store are unchanged;
\* an unknown id changes nothing.
C14_AgentStatusPatchesOnlyStatus ==
    [][last'.op = "agent_status" =>
          /\ Len(agents') = Len(agents)
          /\ \A i \in 1..Len(agents) :
                /\ DOMAIN agents'[i] = DOMAIN agents[i]
                /\ agents'[i].id = agents[i].id
                /\ agents'[i].name = agents[i].name
                /\ agents'[i].status =
                      IF agents[i].id = last'.id THEN last'.status ELSE agents[i].status
          /\ UNCHANGED <<tasks, recurringTasks, liveFeed, squadMessages, unreadChatCount,
                         isLoading, isInitialized, error, loadingChat, wsConnected, ws,
                         isChatOpen>>]_vars

\* An event for the second of three agents has given it a new status, and the
\* other two are as they were loaded.
C14_Witness ==
    /\ last.op = "agent_status"
    /\ last.id = Bob.id
    /\ last.status = "OFFLINE"
    /\ agents = <<Alice, [Bob EXCEPT !.status = "OFFLINE"], Jarvis>>

(***************************************************************************)
(* Moving a task: drag and drop, forward, back                             *)
(***************************************************************************)

\* statusOrder.indexOf(status), from 0; -1 when status is not in statusOrder.
indexOf(status) ==
    IF \E i \in 1..Len(statusOrder) : statusOrder[i] = status
    THEN (CHOOSE i \in 1..Len(statusOrder) : statusOrder[i] = status) - 1
    ELSE 0 - 1

\* statusOrder[index], index from 0.
statusAt(index) == statusOrder[index + 1]

\* A slip in the index: a status is skipped.
nextStatusOf_Skips(currentIndex) == statusAt(Min(currentIndex + 2, Len(statusOrder) - 1))

\* const nextStatus = statusOrder[currentIndex + 1]
nextStatusOf(currentIndex) == statusAt(currentIndex + 1)

\* The columns of the board: handleDragEnd accepts a drop on any of them.
ColumnStatuses == {statusOrder[i] : i \in 1..Len(statusOrder)}

\* The ids the view passes to the move actions: the tasks of the board and
\* the id of a task the store does not hold.
MoveTaskIds == TaskIds \cup {MaxTasks + 1}

\* The reviewer TaskModal passes to moveTaskForward: none, or the selected one.
Reviewers == {NULL, "alice"}

\* api.reviewTask(taskId, action, feedback, reviewer)
ReviewRequest(caller, taskId, action, reviewer) ==
    [Request("reviewTask", caller, taskId, NULL, NULL) EXCEPT
        !.action = action, !.reviewer = reviewer]

\* task?.status
LocalStatus(taskId) ==
    IF FindTask(tasks, taskId) = {} THEN NULL ELSE StatusOf(tasks, taskId)

\* moveTaskForward up to its await: no local change; a review request with a
\* reviewer for REVIEW, a PATCH of the status otherwise.
MoveTaskForward(taskId, reviewer) ==
    /\ calls < MaxCalls
    /\ LET currentIndex == indexOf(LocalStatus(taskId))
       IN /\ ~(currentIndex >= Len(statusOrder) - 1)
          /\ LET nextStatus == nextStatusOf(currentIndex)
             IN net' = net \cup
                  {IF nextStatus = "REVIEW"
                   THEN ReviewRequest("moveTaskForward", taskId, "send_to_review",
                                      IF reviewer = NULL THEN "jarvis" ELSE reviewer)
                   ELSE Request("updateTask", "moveTaskForward", taskId,
                                backendStatus(nextStatus), LocalStatus(taskId))}
    /\ nextReq' = nextReq + 1
    /\ calls' = calls + 1
    /\ last' = [op |-> "moveTaskForward", taskId |-> taskId, from |-> LocalStatus(taskId),
                rid |-> nextReq + 1]
    /\ UNCHANGED <<tasks, backendTasks, failedOptimistic, refreshes, soloStatus>>
    /\ UNCHANGED taskFrame

\* moveTaskForward once its request has settled: refreshTasks is called,
\* without awaiting it, after a success; a failure is logged.
MoveTaskForwardSettle(r) ==
    /\ r.caller = "moveTaskForward"
    /\ r.phase \in {"ok", "failed"}
    /\ IF r.phase = "ok"
       THEN /\ net' = (net \ {r}) \cup {FetchTasksRequest}
            /\ nextReq' = nextReq + 1
       ELSE /\ net' = net \ {r}
            /\ UNCHANGED nextReq
    /\ last' = [op |-> "moveTaskForwardSettled", ok |-> (r.phase = "ok"), taskId |-> r.taskId]
    /\ UNCHANGED <<tasks, backendTasks, calls, failedOptimistic, refreshes, soloStatus>>
    /\ UNCHANGED taskFrame

\* sendTaskBack up to its first await, or to its end when it awaits nothing:
\* a rejection of the review for a task in REVIEW, a PATCH to the previous
\* status for a task after INBOX, and for a task in INBOX only refreshTasks.
SendTaskBack(taskId, feedback) ==
    /\ calls < MaxCalls
    /\ FindTask(tasks, taskId) # {}
    /\ LET status == StatusOf(tasks, taskId)
           currentIndex == indexOf(status)
       IN net' = net \cup
            {IF status = "REVIEW"
             THEN ReviewRequest("sendTaskBack", taskId, "reject", NULL)
             ELSE IF currentIndex > 0
             THEN [Request("updateTask", "sendTaskBack", taskId,
                           backendStatus(statusAt(currentIndex - 1)), status)
                      EXCEPT !.feedback = feedback]
             ELSE FetchTasksRequest}
    /\ nextReq' = nextReq + 1
    /\ calls' = calls + 1
    /\ last' = [op |-> "sendTaskBack", taskId |-> taskId, from |-> StatusOf(tasks, taskId),
                rid |-> nextReq + 1]
    /\ UNCHANGED <<tasks, backendTasks, failedOptimistic, refreshes, soloStatus>>
    /\ UNCHANGED taskFrame

\* sendTaskBack once a request of its has settled: after the PATCH the
\* feedback, if any, is posted as a comment; then refreshTasks is called,
\* without awaiting it; a failure is logged.
SendTaskBackSettle(r) ==
    /\ r.caller = "sendTaskBack"
    /\ r.phase \in {"ok", "failed"}
    /\ IF r.phase = "failed"
       THEN /\ net' = net \ {r}
            /\ UNCHANGED nextReq
       ELSE /\ net' = (net \ {r}) \cup
                {IF r.kind = "updateTask" /\ r.feedback
                 THEN Request("addTaskComment", "sendTaskBack", r.taskId, NULL, NULL)
                 ELSE FetchTasksRequest}
            /\ nextReq' = nextReq + 1
    /\ last' = [op |-> "sendTaskBackSettled", ok |-> (r.phase = "ok"), taskId |-> r.taskId]
    /\ UNCHANGED <<tasks, backendTasks, calls, failedOptimistic, refreshes, soloStatus>>
    /\ UNCHANGED taskFrame

\* The statuses the backend's review endpoint gives a task: REVIEW when it is
\* sent to review, an earlier working status when the review is rejected.
ReviewOutcomes(action) ==
    IF action = "send_to_review" THEN {"REVIEW"} ELSE {"ASSIGNED", "IN_PROGRESS"}

\* The backend serves POST /api/tasks/{id}/review: it rejects the request, or
\* gives the task the status the action leads to.
BackendReview(r, accept, to) ==
    /\ r.phase = "sent"
    /\ r.kind = "reviewTask"
    /\ to \in ReviewOutcomes(r.action)
    /\ LET ok == accept /\ FindTask(backendTasks, r.taskId) # {}
       IN /\ backendTasks' = IF ok THEN SetStatus(backendTasks, r.taskId, to) ELSE backendTasks
          /\ net' = (net \ {r}) \cup {[r EXCEPT !.phase = IF ok THEN "ok" ELSE "failed"]}
    /\ last' = [op |-> "backendReview"]
    /\ UNCHANGED <<tasks, nextReq, calls, failedOptimistic, refreshes, soloStatus>>
    /\ UNCHANGED taskFrame

\* The move actions the view calls in a run.
MaxMoves == 1

\* The collections the backend holds when the board has been loaded: task 1 in
\* any column, the others in review.
ApiStatuses == {backendStatus(s) : s \in ColumnStatuses}

InitialMoveTasks ==
    {[i \in TaskIds |-> [id |-> i, status |-> IF i = 1 THEN s ELSE "REVIEW"]] : s \in ApiStatuses}

InitMoves ==
    \E bt \in InitialMoveTasks :
        /\ StoreInitWith(<<>>, TransformTasks(bt), TRUE)
        /\ EnvInitWith(bt)

NextMoves ==
    \/ \E taskId \in MoveTaskIds, newStatus \in ColumnStatuses :
          calls < MaxMoves /\ MoveTask(taskId, newStatus)
    \/ \E taskId \in MoveTaskIds, reviewer \in Reviewers :
          calls < MaxMoves /\ MoveTaskForward(taskId, reviewer)
    \/ \E taskId \in MoveTaskIds, feedback \in BOOLEAN :
          calls < MaxMoves /\ SendTaskBack(taskId, feedback)
    \/ \E r \in net, accept \in BOOLEAN : BackendServe(r, accept)
    \/ \E r \in net, accept \in BOOLEAN, to \in ApiStatuses : BackendReview(r, accept, to)
    \/ \E r \in net : MoveTaskSettle(r)
    \/ \E r \in net : MoveTaskForwardSettle(r)
    \/ \E r \in net : SendTaskBackSettle(r)
    \/ \E r \in net : RefreshTasksLand(r)

SpecMoves == InitMoves /\ [][NextMoves]_vars

\* The board's spelling of an API status (transformTask).
BoardStatus(apiStatus) == transformTask([id |-> 0, status |-> apiStatus]).status

\* Two statuses next to each other in statusOrder.
Adjacent(s, t) == indexOf(s) - indexOf(t) \in {0 - 1, 1}

\* C15 as stated: every status change of a task made by moveTask,
\* moveTaskForward or sendTaskBack, be it made locally or requested from the
\* backend, goes to a status adjacent in statusOrder to the task's current one.
C15_AdjacentTransitionsOnly ==
    [][(last'.op \in {"moveTask", "moveTaskForward", "sendTaskBack"}
            /\ FindTask(tasks, last'.taskId) # {}) =>
          /\ \A i \in 1..Len(tasks) :
                tasks'[i].status # tasks[i].status =>
                    Adjacent(tasks[i].status, tasks'[i].status)
          /\ \A r \in net' \ net :
                r.kind = "updateTask" =>
                    Adjacent(StatusOf(tasks, r.taskId), BoardStatus(r.status))]_vars

\* C15 (amended): for a task of the store, moveTaskForward requests the status
\* that follows the task's local status in statusOrder (for REVIEW through the
\* review endpoint, with a reviewer) and sendTaskBack the one that precedes it
\* (for a task in REVIEW it requests the rejection of the review, for a task in
\* INBOX nothing but a re-fetch); neither changes the task locally.  moveTask
\* sets locally, and requests, any status of statusOrder other than the task's
\* current one, adjacent or not, and changes no other task.
C15_MoveTransitions ==
    [][/\ (last'.op = "moveTaskForward" /\ FindTask(tasks, last'.taskId) # {}) =>
            /\ tasks' = tasks
            /\ \E r \in net' \ net :
                  /\ net' = net \cup {r}
                  /\ r.taskId = last'.taskId
                  /\ LET k == CHOOSE k \in 1..4 :
                                  statusOrder[k] = StatusOf(tasks, last'.taskId)
                     IN IF statusOrder[k + 1] = "REVIEW"
                        THEN /\ r.kind = "reviewTask"
                             /\ r.action = "send_to_review"
                             /\ r.reviewer # NULL
                        ELSE /\ r.kind = "updateTask"
                             /\ BoardStatus(r.status) = statusOrder[k + 1]
       /\ last'.op = "sendTaskBack" =>
            /\ tasks' = tasks
            /\ \E r \in net' \ net :
                  /\ net' = net \cup {r}
                  /\ LET from == StatusOf(tasks, last'.taskId)
                     IN IF from = "REVIEW"
                        THEN /\ r.kind = "reviewTask"
                             /\ r.action = "reject"
                             /\ r.taskId = last'.taskId
                        ELSE IF from = "INBOX"
                        THEN r.kind = "fetchTasks"
                        ELSE /\ r.kind = "updateTask"
                             /\ r.taskId = last'.taskId
                             /\ \E k \in 2..5 : /\ statusOrder[k] = from
                                                /\ BoardStatus(r.status) = statusOrder[k - 1]
       /\ last'.op = "moveTask" =>
            /\ StatusOf(tasks', last'.taskId) \in
                  ColumnStatuses \ {StatusOf(tasks, last'.taskId)}
            /\ \A i \in 1..Len(tasks) : tasks[i].id # last'.taskId => tasks'[i] = tasks[i]
            /\ Len(tasks') = Len(tasks)
            /\ \E r \in net' \ net :
                  /\ net' = net \cup {r}
                  /\ r.kind = "updateTask"
                  /\ r.taskId = last'.taskId
                  /\ BoardStatus(r.status) = StatusOf(tasks', last'.taskId)]_vars

\* A card has been dragged from INBOX onto DONE: the task is shown as DONE and
\* the PATCH to DONE is in flight.
C15_Witness ==
    /\ last.op = "moveTask"
    /\ last.from = "INBOX"
    /\ StatusOf(tasks, last.taskId) = "DONE"
    /\ \E r \in net : r.kind = "updateTask" /\ r.taskId = last.taskId /\ r.status = "DONE"

\* C16: no store action puts a task into REVIEW, locally or by a request to
\* the backend, without supplying a reviewer: every request in flight that
\* asks for REVIEW carries a reviewer.
C16_ReviewNeedsReviewer ==
    \A r \in net :
        (\/ r.kind = "updateTask" /\ r.status = "REVIEW"
         \/ r.kind = "reviewTask" /\ r.action = "send_to_review") => r.reviewer # NULL

(***************************************************************************)
(* Comments and mention notifications                                      *)
(***************************************************************************)

\* str.replace('-', ''): the first hyphen is removed.
RECURSIVE removeFirstHyphen(_)
removeFirstHyphen(str) ==
    IF str = <<>> THEN <<>>
    ELSE IF Head(str) = "-" THEN Tail(str)
    ELSE <<Head(str)>> \o removeFirstHyphen(Tail(str))

\* The test of agents.find in parseMentions.
parseMentionMatches(a, mentionName) ==
    \/ toLowerCase(a.name) = toLowerCase(mentionName)
    \/ removeFirstHyphen(toLowerCase(a.name)) = toLowerCase(mentionName)

\* agents.find(...) of parseMentions: the index of the first match, 0 for none.
parseFindAgent(as, mentionName) ==
    IF \E i \in 1..Len(as) : parseMentionMatches(as[i], mentionName)
    THEN CHOOSE i \in 1..Len(as) :
            /\ parseMentionMatches(as[i], mentionName)
            /\ \A j \in 1..(i - 1) : ~parseMentionMatches(as[j], mentionName)
    ELSE 0

RECURSIVE parseMentionIds(_, _)
parseMentionIds(tokens, as) ==
    IF tokens = <<>> THEN <<>>
    ELSE LET k == parseFindAgent(as, Head(tokens))
         IN (IF k = 0 THEN <<>> ELSE <<as[k].id>>) \o parseMentionIds(Tail(tokens), as)

\* parseMentions(text, agents): the ids of the agents the @tokens resolve to.
parseMentions(text, as) == parseMentionIds(mentionTokens(text, 1), as)

\* A slip in the filter: the author is notified of their own mention.
RECURSIVE newNotifications_ToAuthor(_, _, _, _)
newNotifications_ToAuthor(ids, taskId, agentId, text) ==
    IF ids = <<>> THEN <<>>
    ELSE <<[id |-> <<"notif", now, Head(ids)>>, type |-> "mention", taskId |-> taskId,
            fromAgentId |-> agentId, toAgentId |-> Head(ids), text |-> text,
            read |-> FALSE]>>
         \o newNotifications_ToAuthor(Tail(ids), taskId, agentId, text)

\* mentionedAgentIds.filter(toAgentId => toAgentId !== agentId).map(...)
RECURSIVE newNotifications(_, _, _, _)
newNotifications(ids, taskId, agentId, text) ==
    IF ids = <<>> THEN <<>>
    ELSE (IF Head(ids) = agentId THEN <<>>
          ELSE <<[id |-> <<"notif", now, Head(ids)>>, type |-> "mention", taskId |-> taskId,
                  fromAgentId |-> agentId, toAgentId |-> Head(ids), text |-> text,
                  read |-> FALSE]>>)
         \o newNotifications(Tail(ids), taskId, agentId, text)

\* The comments a run submits.
MaxComments == 1

AliceAgent ==
    [id |-> <<"a", "l", "i", "c", "e">>, name |-> <<"A", "l", "i", "c", "e">>,
     status |-> "IDLE"]
BobTwo ==
    [id |-> <<"b", "o", "b", "-", "2">>, name |-> <<"B", "o", "b", " ", "T", "w", "o">>,
     status |-> "IDLE"]
BobHyphen ==
    [id |-> <<"b", "o", "b", "-", "2">>, name |-> <<"B", "o", "b", "-", "T", "w", "o">>,
     status |-> "IDLE"]

\* The rosters comments are resolved against.
CommentRosters == {<<AliceAgent, BobTwo>>, <<AliceAgent, BobHyphen>>, <<BobTwo>>}

\* "ping @alice about @bob-2"
PingText ==
    <<"p", "i", "n", "g", " ", "@", "a", "l", "i", "c", "e", " ", "a", "b", "o", "u", "t",
      " ", "@", "b", "o", "b", "-", "2">>

\* The comments typed: the one above, "@Alice", "@bobtwo", "@bob-2", "hi".
CommentTexts ==
    {PingText,
     <<"@", "A", "l", "i", "c", "e">>,
     <<"@", "b", "o", "b", "t", "w", "o">>,
     <<"@", "b", "o", "b", "-", "2">>,
     <<"h", "i">>}

\* The authors of a comment: the user (TaskModal) or an agent.
CommentAuthors == {UserId, AliceAgent.id}

\* addComment up to its await: api.addTaskComment is sent.
AddComment(taskId, agentId, text) ==
    /\ calls < MaxComments
    /\ net' = net \cup
          {[Request("addTaskComment", "addComment", taskId, NULL, NULL) EXCEPT
              !.agentId = agentId, !.text = text]}
    /\ nextReq' = nextReq + 1
    /\ calls' = calls + 1
    /\ last' = [op |-> "addComment", taskId |-> taskId]
    /\ UNCHANGED <<tasks, backendTasks, failedOptimistic, refreshes, soloStatus>>
    /\ UNCHANGED taskFrame

commentFrame ==
    <<agents, recurringTasks, liveFeed, squadMessages, unreadChatCount, isLoading,
      isInitialized, error, loadingChat, wsConnected, ws, isChatOpen, now, events,
      nextMsgId, sockets, timers, mounted, mounts, feedCount, feedLog, selectedTaskId>>

\* addComment once api.addTaskComment has settled: after a success, the
\* notifications for the agents mentioned, then refreshTasks without awaiting
\* it; a failure is logged.
AddCommentSettle(r) ==
    /\ r.caller = "addComment"
    /\ r.phase \in {"ok", "failed"}
    /\ LET mentionedAgentIds == parseMentions(r.text, agents)
       IN IF r.phase = "ok"
          THEN /\ notifications' = notifications \o
                      newNotifications(mentionedAgentIds, r.taskId, r.agentId, r.text)
               /\ net' = (net \ {r}) \cup {FetchTasksRequest}
               /\ nextReq' = nextReq + 1
               /\ last' = [op |-> "addCommentSettled", ok |-> TRUE, text |-> r.text,
                           agentId |-> r.agentId, mentioned |-> mentionedAgentIds]
          ELSE /\ net' = net \ {r}
               /\ last' = [op |-> "addCommentSettled", ok |-> FALSE, text |-> r.text,
                           agentId |-> r.agentId, mentioned |-> <<>>]
               /\ UNCHANGED <<notifications, nextReq>>
    /\ UNCHANGED <<tasks, backendTasks, calls, failedOptimistic, refreshes, soloStatus>>
    /\ UNCHANGED commentFrame

\* A loaded board with any of the rosters.
InitComments ==
    \E roster \in CommentRosters, bt \in InitialBackendTasks :
        /\ StoreInitWith(roster, TransformTasks(bt), TRUE)
        /\ EnvInitWith(bt)

NextComments ==
    \/ \E taskId \in TaskIds, agentId \in CommentAuthors, text \in CommentTexts :
          AddComment(taskId, agentId, text)
    \/ \E r \in net, accept \in BOOLEAN : BackendServe(r, accept)
    \/ \E r \in net : AddCommentSettle(r)
    \/ \E r \in net : RefreshTasksLand(r)

SpecComments == InitComments /\ [][NextComments]_vars

\* C17 (the notifications case): the agents a comment's notifications are
\* generated for are resolved by the rule addChatMessage routes with: each
\* @token, in order, gives the id of the first agent whose name, whose name
\* without whitespace, or whose id equals it, case-insensitively; for
\* "ping @alice about @bob-2" against [{alice, Alice}, {bob-2, Bob Two}] the
\* resolved ids are [alice, bob-2].
C17_MentionResolution ==
    (last.op = "addCommentSettled" /\ last.ok) =>
        LET resolved == chatMentions(mentionTokens(last.text, 1), agents)
        IN /\ last.mentioned = [i \in 1..Len(resolved) |-> resolved[i].id]
           /\ (last.text = PingText /\ agents = <<AliceAgent, BobTwo>>) =>
                 last.mentioned = <<AliceAgent.id, BobTwo.id>>

(***************************************************************************)
(* fetchAPI: the API client's request wrapper                              *)
(***************************************************************************)

\* The requests a run makes.
MaxFetches == 3

\* The status codes the backend answers with.
HttpStatuses == {200, 201, 400, 401, 404, 422, 500, 503}

\* The bodies it answers with: text that is not JSON; the JSON null; an object
\* without detail; an object whose detail is the empty string, a string, or
\* a list (of validation errors).
ResponseBodies ==
    {[kind |-> "notJson", detail |-> "undefined", text |-> ""],
     [kind |-> "null", detail |-> "undefined", text |-> ""],
     [kind |-> "object", detail |-> "undefined", text |-> ""],
     [kind |-> "object", detail |-> "string", text |-> ""],
     [kind |-> "object", detail |-> "string", text |-> "Task not found"],
     [kind |-> "object", detail |-> "array", text |-> "field required"]}

\* response.ok: the status is in 200..299.
responseOk(status) == status >= 200 /\ status <= 299

\* A slip in the fallback: a body that fails to parse counts as an empty object.
errorBody_NoFallback(body) ==
    IF body.kind = "notJson" THEN [kind |-> "object", detail |-> "undefined", text |-> ""]
    ELSE body

\* await response.json().catch(() => ({ detail: 'Request failed' }))
errorBody(body) ==
    IF body.kind = "notJson"
    THEN [kind |-> "object", detail |-> "string", text |-> "Request failed"]
    ELSE body

\* Whether error.detail is falsy on the left of ||: undefined and the empty
\* string are; a non-empty string and an array are not.
falsyDetail(err) == err.detail = "undefined" \/ (err.detail = "string" /\ err.text = "")

\* The message of new Error(x): "HTTP <status>", the string x, or String(x)
\* of an array x.
HttpMessage(status) == [kind |-> "http", status |-> status, text |-> ""]
DetailMessage(err) ==
    [kind |-> IF err.detail = "string" THEN "text" ELSE "stringified", status |-> 0,
     text |-> err.text]
TypeErrorMessage == [kind |-> "TypeError", status |-> 0, text |-> ""]
SyntaxErrorMessage == [kind |-> "SyntaxError", status |-> 0, text |-> ""]

\* fetchAPI on a response: what it returns or throws.  Reading .detail of a
\* null body throws a TypeError and parsing a 2xx body that is not JSON a
\* SyntaxError; the catch block rethrows both.
fetchAPI(status, body) ==
    IF responseOk(status)
    THEN IF body.kind = "notJson"
         THEN [thrown |-> TRUE, message |-> SyntaxErrorMessage]
         ELSE [thrown |-> FALSE, message |-> [kind |-> "none", status |-> 0, text |-> ""]]
    ELSE LET err == errorBody(body)
         IN IF err.kind = "null"
            THEN [thrown |-> TRUE, message |-> TypeErrorMessage]
            ELSE [thrown |-> TRUE,
                  message |-> IF falsyDetail(err) THEN HttpMessage(status)
                              ELSE DetailMessage(err)]

fetchFrame ==
    <<agents, tasks, recurringTasks, liveFeed, squadMessages, unreadChatCount,
      isLoading, isInitialized, error, loadingChat, wsConnected, ws, isChatOpen,
      notifications, selectedTaskId, backendTasks, net, nextReq, now, events, nextMsgId, sockets,
      timers, mounted, mounts, feedCount, feedLog, failedOptimistic, refreshes, soloStatus>>

\* A request made through fetchAPI is answered.
FetchAnswered(status, body) ==
    /\ calls < MaxFetches
    /\ calls' = calls + 1
    /\ last' = [op |-> "fetchAPI", status |-> status, body |-> body,
                result |-> fetchAPI(status, body)]
    /\ UNCHANGED fetchFrame

\* fetch itself rejects (the backend is unreachable): the catch block rethrows.
FetchRejected ==
    /\ calls < MaxFetches
    /\ calls' = calls + 1
    /\ last' = [op |-> "fetchRejected",
                result |-> [thrown |-> TRUE, message |-> TypeErrorMessage]]
    /\ UNCHANGED fetchFrame

InitFetch == StoreInit /\ EnvInit

NextFetch ==
    \/ \E status \in HttpStatuses, body \in ResponseBodies : FetchAnswered(status, body)
    \/ FetchRejected

SpecFetch == InitFetch /\ [][NextFetch]_vars

\* C18 as stated: every non-2xx response is thrown as an error whose message
\* is the body's detail string when there is one, and "HTTP <status>"
\* otherwise.
C18_ErrorCarriesDetailOrStatus ==
    (last.op = "fetchAPI" /\ ~(last.status \in 200..299)) =>
        /\ last.result.thrown
        /\ last.result.message =
              IF last.body.kind = "object" /\ last.body.detail = "string"
                    /\ last.body.text # ""
              THEN [kind |-> "text", status |-> 0, text |-> last.body.text]
              ELSE [kind |-> "http", status |-> last.status, text |-> ""]

\* C18 (amended): every non-2xx response is thrown as an error.  Its message
\* is the body's detail when the body is a JSON object with a non-empty
\* detail string, "Request failed" when the body is not JSON, and
\* "HTTP <status>" when the body is a JSON object with no detail or an empty
\* one.
C18_ErrorMessageByBody ==
    (last.op = "fetchAPI" /\ ~(last.status \in 200..299)) =>
        /\ last.result.thrown
        /\ last.body.kind = "notJson" =>
              last.result.message = [kind |-> "text", status |-> 0, text |-> "Request failed"]
        /\ (last.body.kind = "object" /\ last.body.detail = "undefined") =>
              last.result.message = [kind |-> "http", status |-> last.status, text |-> ""]
        /\ (last.body.kind = "object" /\ last.body.detail = "string") =>
              last.result.message =
                  IF last.body.text = ""
                  THEN [kind |-> "http", status |-> last.status, text |-> ""]
                  ELSE [kind |-> "text", status |-> 0, text |-> last.body.text]

\* A 503 whose body is not JSON has been thrown as "Request failed".
C18_Witness ==
    /\ last.op = "fetchAPI"
    /\ last.status = 503
    /\ last.body.kind = "notJson"
    /\ last.result.thrown
    /\ last.result.message.text = "Request failed"

(***************************************************************************)
(* The reconnect loop                                                      *)
(***************************************************************************)

\* The browser runs the callback of every setTimeout it has accepted: a
\* reconnect timer that is pending fires.  Whether a socket opens or closes is
\* up to the network, and mounting is up to the user: no fairness on those.
SpecWsLive == InitWs /\ [][NextWs]_vars /\ WF_vars(ReconnectTimer)

NextTwoMoves ==
    \/ \E taskId \in TaskIds, newStatus \in DropStatuses :
          /\ \A m \in soloStatus : m.taskId # taskId
          /\ MoveTask(taskId, newStatus)
    \/ \E r \in net, accept \in BOOLEAN : BackendServe(r, accept)
    \/ \E r \in net : MoveTaskSettle(r)
    \/ \E r \in net : RefreshTasksLand(r)

SpecTwoMoves == InitTasks /\ [][NextTwoMoves]_vars

\* C20: moveTask calls on different tasks do not interfere: once every call
\* and every revert has settled, each moved task has locally the status its
\* own call would have left it with had the others not been issued.
C20_MovesDoNotInterfere ==
    net = {} =>
        \A m \in soloStatus :
            /\ FindTask(tasks, m.taskId) # {}
            /\ StatusOf(tasks, m.taskId) = m.status

(***************************************************************************)
(* Repeated actions on one task                                            *)
(***************************************************************************)

\* recurringTasks.find(t => t.id === recurringId), as the matching indices
FindRecurring(rs, recurringId) == {i \in 1..Len(rs) : rs[i].id = recurringId}

ActiveOf(rs, recurringId) == rs[CHOOSE i \in FindRecurring(rs, recurringId) : TRUE].is_active

\* recurringTasks.map(t => t.id === recurringId ? {...t, is_active: !t.is_active} : t)
ToggleActive(rs, recurringId) ==
    [i \in 1..Len(rs) |->
        IF rs[i].id = recurringId THEN [rs[i] EXCEPT !.is_active = ~rs[i].is_active]
        ELSE rs[i]]

\* The recurring tasks a run toggles, and what GET /api/recurring may answer.
RecurringIds == {1, 2}
RecurringCollections ==
    {<<[id |-> 1, is_active |-> a]>> : a \in BOOLEAN}

recurringFrame ==
    <<agents, tasks, liveFeed, squadMessages, unreadChatCount, isLoading,
      isInitialized, error, loadingChat, wsConnected, ws, isChatOpen, notifications,
      selectedTaskId,
      backendTasks, now, events, nextMsgId, sockets, timers, mounted, mounts,
      feedCount, feedLog, failedOptimistic, refreshes, soloStatus>>

\* toggleRecurringTask up to its await: the early return, the optimistic
\* flip, the PATCH with the negation of the value read before the flip.
ToggleRecurringTask(recurringId) ==
    /\ calls < MaxCalls
    /\ FindRecurring(recurringTasks, recurringId) # {}
    /\ recurringTasks' = ToggleActive(recurringTasks, recurringId)
    /\ net' = net \cup
          {[Request("updateRecurringTask", "toggleRecurringTask", recurringId, NULL, NULL)
                EXCEPT !.active = ~ActiveOf(recurringTasks, recurringId)]}
    /\ nextReq' = nextReq + 1
    /\ calls' = calls + 1
    /\ last' = [op |-> "toggleRecurringTask", id |-> recurringId]
    /\ UNCHANGED recurringFrame

\* The backend answers a request about recurring tasks: it rejects it, or
\* accepts it and, for the GET, sends the collection it holds.
BackendRecurring(r, accept, held) ==
    /\ r.phase = "sent"
    /\ r.kind \in {"updateRecurringTask", "fetchRecurringTasks"}
    /\ net' = (net \ {r}) \cup
          {[r EXCEPT !.phase = IF accept THEN "ok" ELSE "failed",
                     !.body = IF accept /\ r.kind = "fetchRecurringTasks" THEN held
                              ELSE <<>>]}
    /\ last' = [op |-> "backendRecurring"]
    /\ UNCHANGED <<recurringTasks, nextReq, calls>>
    /\ UNCHANGED recurringFrame

\* toggleRecurringTask once api.updateRecurringTask has settled: nothing more
\* on success; on failure refreshRecurringTasks is called without awaiting it.
ToggleSettle(r) ==
    /\ r.caller = "toggleRecurringTask"
    /\ r.phase \in {"ok", "failed"}
    /\ IF r.phase = "failed"
       THEN /\ net' = (net \ {r}) \cup
                  {Request("fetchRecurringTasks", "refreshRecurringTasks", 0, NULL, NULL)}
            /\ nextReq' = nextReq + 1
       ELSE /\ net' = net \ {r}
            /\ UNCHANGED nextReq
    /\ last' = [op |-> "toggleSettled", ok |-> (r.phase = "ok"), id |-> r.taskId,
                active |-> r.active]
    /\ UNCHANGED <<recurringTasks, calls>>
    /\ UNCHANGED recurringFrame

\* refreshRecurringTasks once api.fetchRecurringTasks has settled: the
\* fetched collection replaces recurringTasks; a failure is logged.
RefreshRecurringLand(r) ==
    /\ r.caller = "refreshRecurringTasks"
    /\ r.phase \in {"ok", "failed"}
    /\ recurringTasks' = IF r.phase = "ok" THEN r.body ELSE recurringTasks
    /\ net' = net \ {r}
    /\ last' = [op |-> "refreshRecurringLanded", ok |-> (r.phase = "ok"), body |-> r.body]
    /\ UNCHANGED <<nextReq, calls>>
    /\ UNCHANGED recurringFrame

\* The board and the recurring tasks after a successful initialize().
InitSameTask ==
    \E bt \in InitialBackendTasks :
        /\ StoreInitAll(<<>>, TransformTasks(bt), ApiRecurring, TRUE)
        /\ EnvInitWith(bt)

\* moveTask is called again and again on one task, or toggleRecurringTask on
\* one recurring task, without waiting for the answers to the earlier calls.
NextSameTask ==
    \/ \E taskId \in TaskIds, newStatus \in DropStatuses :
          /\ \A m \in soloStatus : m.taskId = taskId
          /\ MoveTask(taskId, newStatus)
    \/ \E r \in net, accept \in BOOLEAN : BackendServe(r, accept)
    \/ \E r \in net : MoveTaskSettle(r)
    \/ \E r \in net : RefreshTasksLand(r)
    \/ \E recurringId \in RecurringIds : ToggleRecurringTask(recurringId)
    \/ \E r \in net, accept \in BOOLEAN, held \in RecurringCollections :
          BackendRecurring(r, accept, held)
    \/ \E r \in net : ToggleSettle(r)
    \/ \E r \in net : RefreshRecurringLand(r)

SpecSameTask == InitSameTask /\ [][NextSameTask]_vars

\* C21 as stated: with several actions on one task in flight, the last
\* response to land determines the task's local state: when the answer that
\* empties the network is an accepted PATCH, the task has that PATCH's status
\* (the recurring task that PATCH's is_active).
C21_LastResponseWins ==
    /\ (net = {} /\ last.op = "moveTaskSettled" /\ last.ok) =>
          /\ FindTask(tasks, last.taskId) # {}
          /\ backendStatus(StatusOf(tasks, last.taskId)) = last.status
    /\ (net = {} /\ last.op = "toggleSettled" /\ last.ok) =>
          /\ FindRecurring(recurringTasks, last.id) # {}
          /\ ActiveOf(recurringTasks, last.id) = last.active

\* C21 (amended): actions on one task are not serialized, and the task's
\* local state is always the one written last by a call or by a re-fetch: a
\* call writes at once, whatever is in flight (moveTask its status,
\* toggleRecurringTask the negation of the local is_active); the answer to a
\* PATCH, accepted or not, writes nothing; a re-fetch that succeeds writes the
\* fetched collection, and one that fails writes nothing.
C21_LastWriteWins ==
    [][/\ last'.op = "moveTask" =>
            /\ Len(tasks') = Len(tasks)
            /\ \A i \in 1..Len(tasks) :
                  tasks'[i] = IF tasks[i].id = last'.taskId
                              THEN [tasks[i] EXCEPT !.status = last'.status]
                              ELSE tasks[i]
       /\ last'.op \in {"moveTaskSettled", "backendServe"} => tasks' = tasks
       /\ last'.op = "refreshTasksLanded" =>
            IF last'.ok
            THEN /\ Len(refreshes') = Len(refreshes) + 1
                 /\ tasks' = TransformTasks(refreshes'[Len(refreshes')].body)
            ELSE tasks' = tasks
       /\ last'.op = "toggleRecurringTask" =>
            /\ Len(recurringTasks') = Len(recurringTasks)
            /\ \A i \in 1..Len(recurringTasks) :
                  /\ recurringTasks'[i].id = recurringTasks[i].id
                  /\ recurringTasks'[i].is_active =
                        IF recurringTasks[i].id = last'.id
                        THEN ~recurringTasks[i].is_active
                        ELSE recurringTasks[i].is_active
       /\ last'.op \in {"toggleSettled", "backendRecurring"} =>
            recurringTasks' = recurringTasks
       /\ last'.op = "refreshRecurringLanded" =>
            recurringTasks' = IF last'.ok THEN last'.body ELSE recurringTasks]_vars

\* The answer to the first of two accepted moves of a task has landed last,
\* and the task has the status of the second.
C21_Witness ==
    /\ net = {}
    /\ last.op = "moveTaskSettled"
    /\ last.ok
    /\ FindTask(tasks, last.taskId) # {}
    /\ backendStatus(StatusOf(tasks, last.taskId)) # last.status
    /\ refreshes = <<>>
    /\ recurringTasks = ApiRecurring

(***************************************************************************)
(* Notifications                                                           *)
(***************************************************************************)

\* currentAgentId: 'main', the "logged in" agent; the store never sets it.
currentAgentId == MainId

MainAgent == [id |-> MainId, name |-> <<"m", "a", "i", "n">>, status |-> "WORKING"]

\* The comments typed: "@Alice", "@main", "@main @Alice", "hi".
NotificationTexts ==
    {<<"@", "A", "l", "i", "c", "e">>,
     <<"@", "m", "a", "i", "n">>,
     <<"@", "m", "a", "i", "n", " ", "@", "A", "l", "i", "c", "e">>,
     <<"h", "i">>}

\* The ids the view passes: those of the notifications held, and a stale one.
NotifIds == {notifications[i].id : i \in 1..Len(notifications)} \cup {<<"notif", 0, UserId>>}

\* notifications.map(n => n.id === notifId ? {...n, read: true} : n)
markNotificationRead(ns, notifId) ==
    [i \in 1..Len(ns) |-> IF ns[i].id = notifId THEN [ns[i] EXCEPT !.read = TRUE] ELSE ns[i]]

\* notifications.map(n => n.toAgentId === state.currentAgentId ? {...n, read: true} : n)
markAllNotificationsRead(ns) ==
    [i \in 1..Len(ns) |->
        IF ns[i].toAgentId = currentAgentId THEN [ns[i] EXCEPT !.read = TRUE] ELSE ns[i]]

notifFrame ==
    <<agents, tasks, recurringTasks, liveFeed, squadMessages, unreadChatCount,
      isLoading, isInitialized, error, loadingChat, wsConnected, ws, isChatOpen,
      backendTasks, net, nextReq, calls, now, events, nextMsgId, sockets, timers,
      mounted, mounts, feedCount, feedLog, failedOptimistic, refreshes, soloStatus>>

MarkNotificationRead(notifId) ==
    /\ notifications' = markNotificationRead(notifications, notifId)
    /\ last' = [op |-> "markNotificationRead"]
    /\ UNCHANGED selectedTaskId
    /\ UNCHANGED notifFrame

MarkAllNotificationsRead ==
    /\ notifications' = markAllNotificationsRead(notifications)
    /\ last' = [op |-> "markAllNotificationsRead"]
    /\ UNCHANGED selectedTaskId
    /\ UNCHANGED notifFrame

\* openTaskFromNotification: the notification is marked read and its task is
\* selected.
OpenTaskFromNotification(notifId, taskId) ==
    /\ notifications' = markNotificationRead(notifications, notifId)
    /\ selectedTaskId' = taskId
    /\ last' = [op |-> "openTaskFromNotification", taskId |-> taskId]
    /\ UNCHANGED notifFrame

\* A loaded board with Alice and the logged-in agent.
InitNotifications ==
    \E bt \in InitialBackendTasks :
        /\ StoreInitWith(<<AliceAgent, MainAgent>>, TransformTasks(bt), TRUE)
        /\ EnvInitWith(bt)

NextNotifications ==
    \/ \E taskId \in TaskIds, agentId \in CommentAuthors, text \in NotificationTexts :
          AddComment(taskId, agentId, text)
    \/ \E r \in net, accept \in BOOLEAN : BackendServe(r, accept)
    \/ \E r \in net : AddCommentSettle(r)
    \/ \E r \in net : RefreshTasksLand(r)
    \/ \E notifId \in NotifIds : MarkNotificationRead(notifId)
    \/ MarkAllNotificationsRead
    \/ \E i \in 1..Len(notifications) :
          OpenTaskFromNotification(notifications[i].id, notifications[i].taskId)
    \/ \E id \in {MainId, <<"n", "o">>}, status \in {"WORKING", "OFFLINE"} :
          WsAgentStatus(id, status)

SpecNotifications == InitNotifications /\ [][NextNotifications]_vars

\* The agents a token of the text names: by name, or by name without its
\* first hyphen, ignoring case.
NamedIn(text) ==
    {agents[k].id : k \in
        {k \in 1..Len(agents) :
            \E j \in 1..Len(mentionTokens(text, 1)) :
                LET token == toLowerCase(mentionTokens(text, 1)[j])
                    name == toLowerCase(agents[k].name)
                IN name = token \/ removeFirstHyphen(name) = token}}

\* C22: notifications grows only when addComment lands after the backend
\* accepted the comment, and then by unread mention records of that comment,
\* each for an agent a mention of the comment names and who is not its author;
\* every other step, a failed addComment included, keeps the entries it
\* holds, at most marking them read.
C22_NotificationsOnlyFromComments ==
    [][LET old == Len(notifications)
           new == Len(notifications')
       IN /\ new >= old
          /\ \A i \in 1..old :
                notifications'[i] \in
                    {notifications[i], [notifications[i] EXCEPT !.read = TRUE]}
          /\ new > old =>
                /\ last'.op = "addCommentSettled"
                /\ last'.ok
                /\ \A i \in (old + 1)..new :
                      LET n == notifications'[i]
                      IN /\ n.type = "mention"
                         /\ ~n.read
                         /\ n.text = last'.text
                         /\ n.fromAgentId = last'.agentId
                         /\ n.toAgentId # n.fromAgentId
                         /\ n.toAgentId \in NamedIn(n.text)]_vars

\* "@main @Alice" by the user has been accepted and has notified both, and
\* the user has since marked notifications read.
C22_Witness ==
    /\ Len(notifications) = 2
    /\ notifications[1].toAgentId = MainId
    /\ notifications[2].toAgentId = AliceAgent.id
    /\ notifications[1].fromAgentId = UserId
    /\ notifications[1].read
    /\ ~notifications[2].read

(***************************************************************************)
(* The selected task                                                       *)
(***************************************************************************)

\* selectTask, called by a task card with the id of its task.
SelectTask(taskId) ==
    /\ FindTask(tasks, taskId) # {}
    /\ selectedTaskId' = taskId
    /\ last' = [op |-> "selectTask", taskId |-> taskId]
    /\ UNCHANGED <<tasks, backendTasks, net, nextReq, calls, failedOptimistic, refreshes,
                   soloStatus>>
    /\ UNCHANGED deleteFrame

\* closeTask
CloseTask ==
    /\ selectedTaskId' = 0
    /\ last' = [op |-> "closeTask"]
    /\ UNCHANGED <<tasks, backendTasks, net, nextReq, calls, failedOptimistic, refreshes,
                   soloStatus>>
    /\ UNCHANGED deleteFrame

\* Another client deletes a task on the backend.
OtherClientDelete(taskId) ==
    /\ FindTask(backendTasks, taskId) # {}
    /\ backendTasks' = RemoveTask(backendTasks, taskId)
    /\ last' = [op |-> "otherClientDelete", taskId |-> taskId]
    /\ UNCHANGED <<tasks, net, nextReq, calls, failedOptimistic, refreshes, soloStatus>>
    /\ UNCHANGED taskFrame

\* The task_deleted event of a task the backend has deleted: the task is
\* filtered out of tasks.
WsTaskDeleted(taskId) ==
    /\ FindTask(backendTasks, taskId) = {}
    /\ tasks' = RemoveTask(tasks, taskId)
    /\ last' = [op |-> "task_deleted", taskId |-> taskId]
    /\ UNCHANGED <<backendTasks, net, nextReq, calls, failedOptimistic, refreshes,
                   soloStatus>>
    /\ UNCHANGED taskFrame

NextSelection ==
    \/ \E taskId \in TaskIds : SelectTask(taskId)
    \/ CloseTask
    \/ \E taskId \in TaskIds : DeleteTask(taskId)
    \/ RefreshTasks
    \/ \E taskId \in TaskIds : OtherClientDelete(taskId)
    \/ \E taskId \in TaskIds : WsTaskDeleted(taskId)
    \/ \E r \in net, accept \in BOOLEAN : BackendServe(r, accept)
    \/ \E r \in net : DeleteTaskSettle(r)
    \/ \E r \in net : RefreshTasksLand(r)

SpecSelection == InitTasks /\ [][NextSelection]_vars

\* C23: whenever a task is selected, tasks holds a task with that id.
C23_SelectedTaskPresent ==
    selectedTaskId # 0 => FindTask(tasks, selectedTaskId) # {}

(***************************************************************************)
(* Teardown of the WebSocket                                               *)
(***************************************************************************)

\* C24: once disconnectWebSocket has run (App is unmounted), no socket is
\* created until App mounts again and calls connectWebSocket: in particular
\* the close event of the socket that disconnectWebSocket closed leads to no
\* reconnect.
C24_NoReconnectAfterDisconnect ==
    [][(~mounted /\ Len(sockets') > Len(sockets)) => last'.op = "mount"]_vars

(***************************************************************************)
(* Ids of the chat messages                                                *)
(***************************************************************************)

\* C25: no two entries of squadMessages have the same id.
C25_UniqueMessageIds ==
    \A i, j \in 1..Len(squadMessages) :
        squadMessages[i].id = squadMessages[j].id => i = j

(***************************************************************************)
(* Deletion and re-fetches                                                 *)
(***************************************************************************)

\* C26: a task whose deleteTask has succeeded (the backend has dropped it and
\* the call has settled) is not in tasks, whatever re-fetch lands afterwards.
C26_DeletedTaskStaysDeleted ==
    \A taskId \in TaskIds :
        (/\ FindTask(backendTasks, taskId) = {}
         /\ \A r \in net : ~(r.kind = "deleteTask" /\ r.taskId = taskId))
            => FindTask(tasks, taskId) = {}

(***************************************************************************)
(* Re-fetches in flight together                                           *)
(***************************************************************************)

\* The statuses another client gives a task.
OtherClientStatuses == {"ASSIGNED", "DONE"}

\* Another client moves a task on the backend.
OtherClientUpdate(taskId, status) ==
    /\ FindTask(backendTasks, taskId) # {}
    /\ StatusOf(backendTasks, taskId) # status
    /\ backendTasks' = SetStatus(backendTasks, taskId, status)
    /\ last' = [op |-> "otherClientUpdate", taskId |-> taskId]
    /\ UNCHANGED <<tasks, net, nextReq, calls, failedOptimistic, refreshes, soloStatus>>
    /\ UNCHANGED taskFrame

\* refreshTasks is called by task events and fallback timers while other
\* clients change the backend's collection; the responses land in any order.
NextRefreshRace ==
    \/ RefreshTasks
    \/ \E taskId \in TaskIds, status \in OtherClientStatuses :
          OtherClientUpdate(taskId, status)
    \/ \E r \in net, accept \in BOOLEAN : BackendServe(r, accept)
    \/ \E r \in net : RefreshTasksLand(r)

SpecRefreshRace == InitTasks /\ [][NextRefreshRace]_vars

\* C27: once every response has landed, one of them carrying the collection
\* the backend holds now, tasks is the transform of that collection, whatever
\* the order the responses landed in.
C27_MostRecentSnapshotWins ==
    (/\ net = {}
     /\ \E i \in 1..Len(refreshes) : refreshes[i].body = backendTasks)
        => tasks = TransformTasks(backendTasks)

(***************************************************************************)
(* wsConnected and the socket held                                         *)
(***************************************************************************)

\* C28: wsConnected is true exactly when the socket stored in ws is open.
C28_ConnectedIffCurrentOpen ==
    wsConnected <=> (ws # 0 /\ sockets[ws] = "open")

(***************************************************************************)
(* The unread count while the chat is open                                 *)
(***************************************************************************)

\* C29: while the chat panel is open, unreadChatCount is 0.
C29_OpenChatHasNoUnread == isChatOpen => unreadChatCount = 0

\* With the chat open, an agent's message that mentions the user has been
\* appended and the count is still 0.
C29_Witness ==
    /\ isChatOpen
    /\ unreadChatCount = 0
    /\ last.op = "chat_message"
    /\ ~last.existed
    /\ \E i \in 1..Len(squadMessages) :
          /\ squadMessages[i].id = last.id
          /\ squadMessages[i].agentId # UserId
          /\ mentionsUser(squadMessages[i].text)

(***************************************************************************)
(* moveTaskForward                                                         *)
(***************************************************************************)

\* C30: moveTaskForward(id) does something only for a task that tasks holds
\* and that is not in the last status, and then it leaves tasks as it is and
\* sends one request, for exactly the status after the task's own in
\* statusOrder.
C30_MoveForwardRequestsNext ==
    [][last'.op = "moveTaskForward" =>
          /\ FindTask(tasks, last'.taskId) # {}
          /\ StatusOf(tasks, last'.taskId) # statusOrder[Len(statusOrder)]
          /\ tasks' = tasks
          /\ \E r \in net' :
                /\ net' = net \cup {r}
                /\ r \notin net
                /\ r.taskId = last'.taskId
                /\ LET next == statusAt(indexOf(StatusOf(tasks, last'.taskId)) + 1)
                   IN IF next = "REVIEW"
                      THEN r.kind = "reviewTask" /\ r.action = "send_to_review"
                      ELSE r.kind = "updateTask" /\ r.status = backendStatus(next)]_vars

====
